---- MODULE Spec2Model ----
(***************************************************************************)
(* Model of the trailer route optimizer (backend/solver): city-name        *)
(* canonicalization, the distance transit callbacks, the greedy subset     *)
(* selection, the routing model of one batch and the round loop of         *)
(* optimize.  Each part has its own specification over its own variables;  *)
(* the variables of the other parts stay at their idle values.             *)
(***************************************************************************)
EXTENDS Integers, Sequences, FiniteSets, TLC

VARIABLES
    \* ---- canonicalization (utils.norm, distance._norm)
    nm_pc,        \* "start" | "once" | "twice" | "idle"
    nm_fn,        \* which function is exercised: "norm" | "_norm"
    nm_in,        \* the input text (a sequence of characters) or None
    nm_out1,      \* norm(input)
    nm_out2,      \* norm(norm(input))
    \* ---- distance transit callbacks (cost_cb, safe_dist_lookup)
    dl_pc,        \* "ready" | "called" | "idle"
    dl_manager,   \* the RoutingIndexManager the callback closes over
    dl_matrix,    \* the distance matrix the callback closes over
    dl_call,      \* [fn, i, j] of the last call
    dl_ret,       \* [val, raised] of the last call
    \* ---- one call of selecionar_servicos_e_trailers_compativeis
    sel_pc,       \* "start" | "base" | "fallback" | "done" | "idle"
    sel_df,       \* the argument df
    sel_trailers, \* the argument trailers
    sel_st,       \* trailer_caps, used_services, used_trailer_idxs, alocacoes
    sel_work,     \* the (block, trailers) pairs the running loop still visits
    sel_ret,      \* the value returned
    \* ---- the routing of one batch (setup, constraints, solve)
    slv_pc,       \* "start" | "built" | "solved" | "nosolution" | "raised" | "crashed" | "idle"
    slv_df,       \* df_usado
    slv_trailers, \* trailers_usados
    slv_model,    \* the routing model with its constraints
    slv_routes,   \* the assignment returned
    \* ---- one run of optimize
    run_pc,       \* "start" | "loop" | "done" | "raised" | "crashed" | "idle"
    run_df,       \* the services of the day
    run_trailers, \* the trailers of the day
    run_max_voltas,
    run_debug,
    run_clusters, \* the list the loop walks
    run_rodada,   \* the number of clusters the loop has walked
    run_services_alocados,
    run_trailers_restantes,
    run_rota_ids_total,
    run_ret,      \* the value returned
    run_batches,  \* history: the service_reg sets of the batches persisted
    run_solved,   \* history: the number of rounds that reached the solver
    \* persist_routes
    ps_pc,
    ps_df,           \* df_usado
    ps_routes,       \* the (vehicle, path) list
    ps_trailers,     \* trailers_usados
    ps_df_idx_map,
    ps_v,            \* the position in routes of the route at hand
    ps_ordem,        \* the position in its path of the node at hand
    ps_rota_ids,
    ps_rota,         \* table rota
    ps_rota_parada,  \* table rota_parada
    ps_service_rota, \* ids_monitorados.rota_id
    ps_log,          \* history: the inserts that failed
    ps_ret,          \* the value returned and the column rota_id of df
    ps_services_alocados, \* optimize's services_alocados after the call
    \* the module-level state of distance.py and the runs that use it
    cc_cache,        \* _COORDS_CACHE
    cc_log,          \* _INVALID_CITY_LOG
    cc_cache_by,     \* history: the run that wrote each entry of the cache
    cc_log_by,       \* history: the run that appended each entry of the log
    cc_seen,         \* per run: what its last get_coords returned
    cc_export,       \* per run: the rows of its last CSV export
    \* interno_penalties on one routing model
    dj_pc,
    dj_n_srv,
    dj_pickup_ids,   \* what is left of pickup_ids in the call at hand
    dj_disj,         \* the disjunctions of the model, in the order added
    dj_attr,         \* routing._disj_nodes
    dj_calls,        \* history: the number of calls made
    \* one call of a demand callback
    dm_pc,
    dm_manager,
    dm_df,
    dm_call,         \* [fn, kind, index] of the last call
    dm_ret,          \* [val, raised] of the last call
    \* one call of routing.selecionar_subconjunto_compativel
    ss_pc,           \* "ready" | "returned" | "off"
    ss_df,           \* the services: rows [id, ceu_int]
    ss_cap,          \* trailer_cap_ceu
    ss_ret,          \* [df_ok, df_restante]
    \* the base fields of one service and its location for clustering
    bs_pc,           \* "loaded" | "prepared" | "clustered" | "off"
    bs_base_map,     \* fetch_city_base_map: city_norm -> base_norm
    bs_row,          \* the row of the service
    bs_call,         \* [tipo, real]: the last call of coordenada_real
    \* one call of city_mapping.map_bases_to_indices
    mb_pc,           \* "ready" | "returned" | "raised" | "off"
    mb_df,           \* the services of the batch
    mb_trailers,     \* the trailers of the batch
    mb_ret           \* [raised, starts, ends]

varsNorm == <<nm_pc, nm_fn, nm_in, nm_out1, nm_out2>>
varsDist == <<dl_pc, dl_manager, dl_matrix, dl_call, dl_ret>>
varsSel == <<sel_pc, sel_df, sel_trailers, sel_st, sel_work, sel_ret>>
varsSolve == <<slv_pc, slv_df, slv_trailers, slv_model, slv_routes>>
varsRun ==
    <<run_pc, run_df, run_trailers, run_max_voltas, run_debug, run_clusters, run_rodada,
      run_services_alocados, run_trailers_restantes, run_rota_ids_total, run_ret,
      run_batches, run_solved>>
varsPersist ==
    <<ps_pc, ps_df, ps_routes, ps_trailers, ps_df_idx_map, ps_v, ps_ordem, ps_rota_ids,
      ps_rota, ps_rota_parada, ps_service_rota, ps_log, ps_ret, ps_services_alocados>>
varsCache == <<cc_cache, cc_log, cc_cache_by, cc_log_by, cc_seen, cc_export>>
varsDisj == <<dj_pc, dj_n_srv, dj_pickup_ids, dj_disj, dj_attr, dj_calls>>
varsDemand == <<dm_pc, dm_manager, dm_df, dm_call, dm_ret>>
varsSubset == <<ss_pc, ss_df, ss_cap, ss_ret>>
varsBase == <<bs_pc, bs_base_map, bs_row, bs_call>>
varsMapBases == <<mb_pc, mb_df, mb_trailers, mb_ret>>

\* a value that is not a str (None, NaN): "not isinstance(texto, str)"
None == <<"<None>">>

(***************************************************************************)
(* Canonicalization of city names.                                         *)
(* A text is a sequence of characters; a character is a token.  The        *)
(* alphabet holds ASCII letters of both cases, the space, precomposed      *)
(* accented letters (NFKD splits them into an ASCII letter and a           *)
(* combining mark) and characters with no ASCII decomposition.             *)
(***************************************************************************)
MaxLen == 3

AsciiLower == {"a", "e"}
AsciiUpper == {"A", "C", "D", "E", "H", "I", "N", "O", "S"}
Space == " "
Ascii == AsciiLower \cup AsciiUpper \cup {Space}
Accented == {"e_acute", "C_CEDILLA"}
CombiningMarks == {"comb_acute", "comb_cedilla"}
NoAsciiForm == {"eszett"}
InputAlphabet == {"a", "E", Space, "e_acute", "C_CEDILLA", "eszett"}

Texts == UNION {[1..n -> InputAlphabet] : n \in 0..MaxLen}

\* the sentinel returned for missing or blank input
DESCONHECIDA == <<"D", "E", "S", "C", "O", "N", "H", "E", "C", "I", "D", "A">>

RECURSIVE FlatMap(_, _)
FlatMap(F(_), s) == IF s = <<>> THEN <<>> ELSE F(Head(s)) \o FlatMap(F, Tail(s))

\* unicodedata.normalize("NFKD", c) of one character
NFKD(c) ==
    CASE c = "e_acute"   -> <<"e", "comb_acute">>
      [] c = "C_CEDILLA" -> <<"C", "comb_cedilla">>
      [] OTHER           -> <<c>>

\* .encode("ASCII", "ignore").decode(): non-ASCII characters are dropped
EncodeAsciiIgnore(s) == SelectSeq(s, LAMBDA c : c \in Ascii)

UpperChar(c) ==
    CASE c = "a" -> "A"
      [] c = "e" -> "E"
      [] OTHER   -> c

Upper(s) == [k \in 1..Len(s) |-> UpperChar(s[k])]

RECURSIVE LStrip(_)
LStrip(s) == IF s # <<>> /\ Head(s) = Space THEN LStrip(Tail(s)) ELSE s

RECURSIVE RStrip(_)
RStrip(s) ==
    IF s # <<>> /\ s[Len(s)] = Space THEN RStrip(SubSeq(s, 1, Len(s) - 1)) ELSE s

Strip(s) == RStrip(LStrip(s))

\* the trailing chain of .replace("Á", "A") ... .replace("Ç", "C")
ReplaceChar(c) ==
    CASE c = "E_ACUTE"   -> "E"
      [] c = "C_CEDILLA" -> "C"
      [] OTHER           -> c

ReplaceAccents(s) == [k \in 1..Len(s) |-> ReplaceChar(s[k])]

norm(texto) ==
    IF texto = None \/ Strip(texto) = <<>>
    THEN DESCONHECIDA
    ELSE ReplaceAccents(Strip(Upper(EncodeAsciiIgnore(FlatMap(NFKD, texto)))))

distance_norm(texto) ==
    IF texto = None \/ Strip(texto) = <<>>
    THEN DESCONHECIDA
    ELSE ReplaceAccents(Strip(Upper(EncodeAsciiIgnore(FlatMap(NFKD, texto)))))

ApplyFn(fn, texto) == IF fn = "norm" THEN norm(texto) ELSE distance_norm(texto)

(***************************************************************************)
(* The index manager of the routing library: RoutingIndexManager(n_nodes,  *)
(* n_vehicles, starts, ends) with ends = starts.  Every node gets the      *)
(* index equal to its number; a vehicle whose start node is already the    *)
(* start of an earlier vehicle gets a fresh start index; every vehicle     *)
(* gets a fresh end index.  Nodes and indices count from 0, vehicles from  *)
(* 1 (vehicle v of the code is vehicle v + 1 here).                        *)
(***************************************************************************)
NewManager(n_nodes, starts) == [n_nodes |-> n_nodes, starts |-> starts]

Vehicles(m) == 1..Len(m.starts)

IsDupStart(m, v) == \E u \in 1..(v - 1) : m.starts[u] = m.starts[v]

NumDupStarts(m) == Cardinality({v \in Vehicles(m) : IsDupStart(m, v)})

DupRank(m, v) == Cardinality({u \in 1..(v - 1) : IsDupStart(m, u)})

GetNumberOfNodes(m) == m.n_nodes

GetNumberOfIndices(m) == m.n_nodes + NumDupStarts(m) + Len(m.starts)

Start(m, v) == IF IsDupStart(m, v) THEN m.n_nodes + DupRank(m, v) ELSE m.starts[v]

End(m, v) == m.n_nodes + NumDupStarts(m) + (v - 1)

IsEnd(m, idx) == idx >= m.n_nodes + NumDupStarts(m)

\* defined for 0 <= idx < GetNumberOfIndices(m) only
IndexToNode(m, idx) ==
    IF idx < m.n_nodes THEN idx
    ELSE IF idx < m.n_nodes + NumDupStarts(m)
         THEN m.starts[CHOOSE v \in Vehicles(m) :
                           IsDupStart(m, v) /\ DupRank(m, v) = idx - m.n_nodes]
         ELSE m.starts[idx - m.n_nodes - NumDupStarts(m) + 1]

\* defined for 0 <= node < n_nodes only (ends = starts: no node is end-only)
NodeToIndex(m, node) == node

(***************************************************************************)
(* The two distance lookups registered as transit callbacks.               *)
(***************************************************************************)
routing_DEFAULT_PENALTY == 99999
setup_model_DEFAULT_PENALTY == 999999

Returned(v) == [val |-> v, raised |-> FALSE]

\* routing.safe_dist_lookup
safe_dist_lookup(dist_matrix, manager, i_idx, j_idx) ==
    IF i_idx < 0 \/ j_idx < 0
    THEN Returned(routing_DEFAULT_PENALTY)
    ELSE IF i_idx >= GetNumberOfIndices(manager) \/ j_idx >= GetNumberOfIndices(manager)
    THEN Returned(0)
    ELSE LET i == IndexToNode(manager, i_idx)
             j == IndexToNode(manager, j_idx)
         IN  IF i >= Len(dist_matrix) \/ j >= Len(dist_matrix)
             THEN Returned(routing_DEFAULT_PENALTY)
             ELSE Returned(dist_matrix[i + 1][j + 1])

\* setup_model.set_cost_callback.cost_cb
cost_cb(dist_matrix, manager, i, j) ==
    IF ~(0 <= i /\ i < GetNumberOfIndices(manager))
         \/ ~(0 <= j /\ j < GetNumberOfIndices(manager))
    THEN Returned(setup_model_DEFAULT_PENALTY)
    ELSE LET from_node == IndexToNode(manager, i)
             to_node == IndexToNode(manager, j)
         IN  IF ~(0 <= from_node /\ from_node < Len(dist_matrix))
             THEN Returned(setup_model_DEFAULT_PENALTY)
             ELSE IF ~(0 <= to_node /\ to_node < Len(dist_matrix[from_node + 1]))
             THEN Returned(setup_model_DEFAULT_PENALTY)
             ELSE Returned(dist_matrix[from_node + 1][to_node + 1])

(***************************************************************************)
(* The data of a planning day.  A city is a text; the cities of the        *)
(* services are canonical already (normalize_city_fields), the base city   *)
(* of a trailer is the raw text of the trailer source, stripped.  A        *)
(* coordinate is a position in km along one meridian; the cache maps       *)
(* canonical names to coordinates.                                         *)
(***************************************************************************)
CityA == <<"A">>
CityAE == <<"A", "E">>
CityC == <<"C">>
CityD == <<"D">>
CityE == <<"E">>
CityO == <<"O">>

NoCoords == -1

\* distance._COORDS_CACHE once the cities of the day are geocoded: CityAE lies
\* where CityA lies, CityE is far from every other city, CityO is unknown
CoordsCache ==
    (CityA :> 0) @@ (CityAE :> 0) @@ (CityC :> 50) @@ (CityD :> 100) @@ (CityE :> 350)

\* distance.get_coords
get_coords(cache, city) ==
    LET norm_name == distance_norm(city)
    IN  IF norm_name = DESCONHECIDA \/ norm_name \notin DOMAIN cache
        THEN NoCoords
        ELSE cache[norm_name]

\* utils.haversine_km, for two coordinates on one meridian
haversine_km(a, b) == IF a >= b THEN a - b ELSE b - a

\* the sum of f[x] for x in S
RECURSIVE SumFn(_, _)
SumFn(f, S) ==
    IF S = {} THEN 0
    ELSE LET x == CHOOSE y \in S : TRUE IN f[x] + SumFn(f, S \ {x})

SumOver(S, F(_)) == SumFn([x \in S |-> F(x)], S)

SeqSum(q) == SumFn(q, DOMAIN q)

Min(S) == CHOOSE x \in S : \A y \in S : x <= y

\* list.sort / sorted: a stable sort by ascending key; SortPerm(keys) is the
\* order in which the positions of keys come out
RECURSIVE InsertPos(_, _, _)
InsertPos(perm, k, keys) ==
    IF perm = <<>> THEN <<k>>
    ELSE IF keys[perm[Len(perm)]] <= keys[k] THEN Append(perm, k)
    ELSE Append(InsertPos(SubSeq(perm, 1, Len(perm) - 1), k, keys), perm[Len(perm)])

RECURSIVE SortPermUpTo(_, _)
SortPermUpTo(keys, n) ==
    IF n = 0 THEN <<>> ELSE InsertPos(SortPermUpTo(keys, n - 1), n, keys)

SortPerm(keys) == SortPermUpTo(keys, Len(keys))

StableSort(q, Key(_)) ==
    LET perm == SortPerm([k \in DOMAIN q |-> Key(q[k])])
    IN  [i \in DOMAIN q |-> q[perm[i]]]

(***************************************************************************)
(* subset_selection.selecionar_servicos_e_trailers_compativeis             *)
(* A DataFrame is a sequence of rows, a trailer list a sequence of         *)
(* trailers; trailer i of the code is position i + 1.  ceu_max is kept in  *)
(* tenths, so int(float(ceu_max) * 10) is the number itself.               *)
(***************************************************************************)
FALLBACK_MAX_KM == 200

\* lines 15-27: one capacity counter per trailer
TrailerCaps(trailers) ==
    [k \in 1..Len(trailers) |->
        [idx |-> k, cap |-> trailers[k].ceu_max, restante |-> trailers[k].ceu_max,
         base_city |-> trailers[k].base_city]]

\* lines 29-40: df.groupby("id"), one block per key in ascending key order
GroupKeys(df) == {df[k].id : k \in DOMAIN df}

BlockOf(df, key) ==
    LET rows == {k \in DOMAIN df : df[k].id = key}
    IN  [key |-> key,
         service_reg |-> df[Min(rows)].service_reg,
         rows |-> rows,
         ceu |-> SumOver(rows, LAMBDA k : df[k].ceu_int),
         base |-> df[Min(rows)].scheduled_base]

RECURSIVE BlocksByKey(_, _)
BlocksByKey(df, keys) ==
    IF keys = {} THEN <<>>
    ELSE <<BlockOf(df, Min(keys))>> \o BlocksByKey(df, keys \ {Min(keys)})

\* line 42: service_blocks.sort(key=lambda s: -s["ceu"])
ServiceBlocks(df) == StableSort(BlocksByKey(df, GroupKeys(df)), LAMBDA b : 0 - b.ceu)

\* line 48: df["scheduled_base"].dropna().unique(), in order of first appearance
RECURSIVE UniqueSeq(_)
UniqueSeq(q) ==
    IF q = <<>> THEN <<>>
    ELSE LET r == UniqueSeq(SubSeq(q, 1, Len(q) - 1))
         IN  IF \E k \in DOMAIN r : r[k] = q[Len(q)] THEN r ELSE Append(r, q[Len(q)])

Bases(df) ==
    UniqueSeq(SelectSeq([k \in DOMAIN df |-> df[k].scheduled_base], LAMBDA b : b # None))

\* lines 44-46: the accumulators of the selection
NewSelection(trailers) ==
    [trailer_caps |-> TrailerCaps(trailers),
     used_services |-> <<>>,
     used_trailer_idxs |-> {},
     alocacoes_por_trailer |-> [k \in 1..Len(trailers) |-> <<>>]]

\* the same search when the test reads the trailer's total capacity, not what is left
FirstFitByCap(caps, order, ceu) ==
    IF order = <<>> THEN 0
    ELSE IF \E k \in DOMAIN order : ceu <= caps[order[k]].cap
         THEN order[Min({k \in DOMAIN order : ceu <= caps[order[k]].cap})]
         ELSE 0

\* the first trailer of order (positions) whose restante takes ceu; 0 when none
RECURSIVE FirstFit(_, _, _)
FirstFit(caps, order, ceu) ==
    IF order = <<>> THEN 0
    ELSE IF ceu <= caps[Head(order)].restante THEN Head(order)
    ELSE FirstFit(caps, Tail(order), ceu)

\* lines 65-75 and 105-115: the block goes onto trailer t
Allocate(st, block, t) ==
    [st EXCEPT !.trailer_caps[t].restante = @ - block.ceu,
               !.used_services = Append(@, block.key),
               !.used_trailer_idxs = @ \cup {t},
               !.alocacoes_por_trailer[t] = Append(@, block.service_reg)]

\* lines 60-77: the inner loop over the trailers, with its for-else
TryAllocate(st, block, order) ==
    LET t == FirstFit(st.trailer_caps, order, block.ceu)
    IN  IF t = 0 THEN st ELSE Allocate(st, block, t)

\* lines 50-59: the (block, trailers of its base) pairs the first phase visits
TrailersOfBase(caps, base) ==
    SelectSeq([k \in DOMAIN caps |-> k], LAMBDA k : caps[k].base_city = base)

RECURSIVE BaseWork(_, _, _)
BaseWork(bases, blocks, caps) ==
    IF bases = <<>> THEN <<>>
    ELSE LET base == Head(bases)
             trailers_base == TrailersOfBase(caps, base)
             blocos_base == SelectSeq(blocks, LAMBDA b : b.base = base)
         IN  (IF trailers_base = <<>> THEN <<>>
              ELSE [k \in DOMAIN blocos_base |->
                       [block |-> blocos_base[k], order |-> trailers_base]])
             \o BaseWork(Tail(bases), blocks, caps)

\* lines 79-80
BlocosFallback(st, blocks) ==
    SelectSeq(blocks, LAMBDA b : ~\E k \in DOMAIN st.used_services : st.used_services[k] = b.key)

TrailersFallback(st) ==
    SelectSeq([k \in DOMAIN st.trailer_caps |-> k], LAMBDA k : k \notin st.used_trailer_idxs)

\* lines 85-103: sorted(trailers_fallback, key=get_dist) without the trailers
\* the loop skips (no coordinates, or more than 200 km from the block's base)
BIG_DIST == 1000000

GetDist(cache, caps, block, t) ==
    LET coords_a == get_coords(cache, caps[t].base_city)
        coords_b == get_coords(cache, block.base)
    IN  IF coords_a = NoCoords \/ coords_b = NoCoords
        THEN BIG_DIST
        ELSE haversine_km(coords_a, coords_b)

FallbackOrder(cache, caps, block, trailers_fallback) ==
    SelectSeq(StableSort(trailers_fallback, LAMBDA t : GetDist(cache, caps, block, t)),
              LAMBDA t : /\ get_coords(cache, caps[t].base_city) # NoCoords
                         /\ get_coords(cache, block.base) # NoCoords
                         /\ GetDist(cache, caps, block, t) <= FALLBACK_MAX_KM)

\* lines 82-92: the (block, trailers in the order tried) pairs the second
\* phase visits
FallbackWork(cache, st, blocks) ==
    LET blocos_fallback == BlocosFallback(st, blocks)
        trailers_fallback == TrailersFallback(st)
    IN  IF blocos_fallback # <<>> /\ trailers_fallback # <<>>
        THEN [k \in DOMAIN blocos_fallback |->
                [block |-> blocos_fallback[k],
                 order |-> FallbackOrder(cache, st.trailer_caps, blocos_fallback[k],
                                         trailers_fallback)]]
        ELSE <<>>

\* lines 119-130: the value returned
RowsOfKeys(df, keys) == SelectSeq(df, LAMBDA r : r.id \in keys)

RECURSIVE ConcatBlocks(_, _)
ConcatBlocks(df, used) ==
    IF used = <<>> THEN <<>>
    ELSE RowsOfKeys(df, {Head(used)}) \o ConcatBlocks(df, Tail(used))

UsedKeys(st) == {st.used_services[k] : k \in DOMAIN st.used_services}

SelectionResult(df, trailers, st) ==
    [df_usado |-> ConcatBlocks(df, st.used_services),
     df_restante |-> SelectSeq(df, LAMBDA r : r.id \notin UsedKeys(st)),
     trailers_usados |-> SelectSeq([k \in DOMAIN trailers |-> k],
                                   LAMBDA k : k \in st.used_trailer_idxs),
     alocacoes_por_trailer |-> st.alocacoes_por_trailer]

\* lines 12-13
EarlyResult(df, trailers) ==
    [df_usado |-> df, df_restante |-> df, trailers_usados |-> <<>>,
     alocacoes_por_trailer |-> [k \in 1..Len(trailers) |-> <<>>]]

\* the two loops, each a pass over its (block, trailers) pairs
RECURSIVE RunWork(_, _)
RunWork(st, work) ==
    IF work = <<>> THEN st
    ELSE RunWork(TryAllocate(st, Head(work).block, Head(work).order), Tail(work))

\* the whole function; trailers_usados holds positions of the trailer list
selecionar_servicos_e_trailers_compativeis(cache, df, trailers) ==
    IF df = <<>> \/ trailers = <<>> THEN EarlyResult(df, trailers)
    ELSE LET blocks == ServiceBlocks(df)
             st0 == NewSelection(trailers)
             st1 == RunWork(st0, BaseWork(Bases(df), blocks, st0.trailer_caps))
             st2 == RunWork(st1, FallbackWork(cache, st1, blocks))
         IN  SelectionResult(df, trailers, st2)

(***************************************************************************)
(* The routing model of one batch: the cities become the nodes, the        *)
(* trailers the vehicles.  A service row carries load_city, unload_city,   *)
(* vehicle_category_name and force_return besides the fields the selection *)
(* reads; a trailer carries ligeiro_max, furgo_max and rodado_max.         *)
(***************************************************************************)
\* `if t.get("base_city")` / `if not base_city: continue`: the trailers that
\* have a base city, in the order of the list
WithBaseCity(trailers) ==
    SelectSeq(trailers, LAMBDA t : t.base_city # None /\ t.base_city # <<>>)

\* city_mapping.get_unique_cities
get_unique_cities(df, trailers) ==
    LET load_cities == SelectSeq([k \in DOMAIN df |-> df[k].load_city], LAMBDA c : c # None)
        unload_cities == SelectSeq([k \in DOMAIN df |-> df[k].unload_city], LAMBDA c : c # None)
        with_base == WithBaseCity(trailers)
        base_cities == [k \in DOMAIN with_base |-> Strip(with_base[k].base_city)]
        all_cities == SelectSeq(load_cities \o unload_cities \o base_cities,
                                LAMBDA c : c # <<>>)
    IN  UniqueSeq([k \in DOMAIN all_cities |-> norm(all_cities[k])])

\* city_mapping.map_city_indices: the node number of a city of locations
CityIndex(locations, city) == (CHOOSE k \in DOMAIN locations : locations[k] = city) - 1

\* distance._coords raises for a city the cache does not know
CoordsKnown(cache, city) == distance_norm(city) \in DOMAIN cache

\* distance._distance_km, for two coordinates on one meridian
distance_km(a, b) == IF a >= b THEN a - b ELSE b - a

\* distance.build_distance_matrix and the rounding of build_city_index_and_matrix;
\* row i + 1 is the row of node i
build_distance_matrix(cache, locations) ==
    [i \in DOMAIN locations |->
        [j \in DOMAIN locations |->
            IF i = j THEN 0
            ELSE distance_km(cache[distance_norm(locations[i])],
                             cache[distance_norm(locations[j])])]]

\* city_mapping.map_bases_to_indices lines 126-131, 137-138: a base that is
\* not in city_index_map, or no trailer with a base city at all
MapBasesRaises(trailers, locations) ==
    LET with_base == WithBaseCity(trailers)
    IN  \/ with_base = <<>>
        \/ \E k \in DOMAIN with_base :
              \A j \in DOMAIN locations : locations[j] # norm(with_base[k].base_city)

\* city_mapping.map_bases_to_indices when it does not raise: starts (ends is
\* the same list); a trailer without base city is left out (lines 122-124)
map_bases_to_indices(trailers, locations) ==
    LET with_base == WithBaseCity(trailers)
    IN  [k \in DOMAIN with_base |-> CityIndex(locations, norm(with_base[k].base_city))]

\* setup_model.setup_routing_model: raised, or the manager, the starts and
\* the distance matrix
setup_routing_model(cache, df, trailers) ==
    LET locations == get_unique_cities(df, trailers)
    IN  IF locations = <<>> \/ trailers = <<>>
           \/ \E k \in DOMAIN locations : ~CoordsKnown(cache, locations[k])
        THEN [raised |-> TRUE]
        ELSE LET starts == map_bases_to_indices(trailers, locations)
             IN  [raised |-> FALSE,
                  locations |-> locations,
                  manager |-> NewManager(Len(locations), starts),
                  starts |-> starts,
                  dist_matrix |-> build_distance_matrix(cache, locations)]

\* the words a category name is searched for, after lower()
CategoryWords ==
    ("Ligeiro" :> {}) @@ ("Furgao" :> {"furg"}) @@ ("Moto" :> {"moto"})
        @@ ("Rodado Duplo" :> {"rodado"})

\* routing.create_demand_callbacks.build_demand.demand
demand(kind, df, manager, depot_indices, index) ==
    IF index < 0 \/ index >= GetNumberOfIndices(manager) THEN 0
    ELSE LET node == IndexToNode(manager, index)
             n == Len(df)
             pickup == node < n
             base == IF pickup THEN node ELSE node - n
         IN  IF \E k \in DOMAIN depot_indices : depot_indices[k] = node THEN 0
             ELSE IF base < 0 \/ base >= n THEN 0
             ELSE LET cat == CategoryWords[df[base + 1].vehicle_category_name]
                      ceu_val == IF pickup THEN df[base + 1].ceu_int ELSE 0
                  IN  CASE kind = "ceu" -> ceu_val
                        [] kind = "lig" -> IF ~pickup THEN 0 ELSE IF "moto" \in cat THEN 0 ELSE 1
                        [] kind = "fur" -> IF ~pickup THEN 0 ELSE IF "furg" \in cat THEN 1 ELSE 0
                        [] kind = "rod" -> IF ~pickup THEN 0 ELSE IF "rodado" \in cat THEN 1 ELSE 0
                        [] OTHER -> 0

Kinds == {"ceu", "lig", "fur", "rod"}

\* routing.add_dimensions_and_constraints: the capacities of one kind
KindCaps(trailers, kind) ==
    [k \in DOMAIN trailers |->
        CASE kind = "ceu" -> trailers[k].ceu_max
          [] kind = "lig" -> trailers[k].ligeiro_max
          [] kind = "fur" -> trailers[k].furgo_max
          [] kind = "rod" -> trailers[k].rodado_max]

\* the kinds that get a dimension: those some trailer has capacity for
add_dimensions_and_constraints(trailers) ==
    {kind \in Kinds : \E k \in DOMAIN trailers : KindCaps(trailers, kind)[k] # 0}

BIG_M == 10000000
MAX_DIST_POR_TRAILER == 400

\* manager.NodeToIndex as the code calls it, for any node number.  The read
\* of a node the manager does not have is out of the bounds of its table:
\* oob[node] is what that read yields, a negative number (-1 here), an index
\* of the model, or a number that is no index (GetNumberOfIndices here).
NodeToIndexUnchecked(m, oob, node) ==
    IF node < GetNumberOfNodes(m) THEN NodeToIndex(m, node) ELSE oob[node]

OutOfBoundsNodes(m, n_srv) == {node \in 0..(2 * n_srv - 1) : node >= GetNumberOfNodes(m)}

OutOfBoundsReads(m, n_srv) ==
    [OutOfBoundsNodes(m, n_srv) -> (-1)..GetNumberOfIndices(m)]

\* constraints.add_pickup_delivery_pairs: the (pickup, delivery) index pairs
\* that got the two constraints
add_pickup_delivery_pairs(m, n_srv, oob) ==
    {pd \in {<<NodeToIndexUnchecked(m, oob, i), NodeToIndexUnchecked(m, oob, i + n_srv)>> :
                 i \in 0..(n_srv - 1)} :
        ~(pd[1] < 0 \/ pd[2] < 0)}

\* location_rules.add_force_return_constraints: the drop indices constrained
add_force_return_constraints(m, df, n_srv, oob) ==
    {drop \in {NodeToIndexUnchecked(m, oob, i + n_srv) :
                   i \in {j \in 0..(n_srv - 1) : df[j + 1].force_return}} :
        ~(drop < 0)}

\* constraint_weights.get(key, default)
DictGet(d, key, default) == IF key \in DOMAIN d THEN d[key] ELSE default

\* add_distance_penalty called with max_km=None: no SetMax, the bound of the
\* dimension is all that is left
MaxKmNone(constraint_weights) == BIG_M

\* constraints line 105: int(constraint_weights.get("MAX_DIST_POR_TRAILER", 400))
MaxKmOf(constraint_weights) ==
    DictGet(constraint_weights, "MAX_DIST_POR_TRAILER", MAX_DIST_POR_TRAILER)

\* constraints.apply_all_constraints on the model setup_routing_model built
apply_all_constraints(setup, df, trailers, n_services, depot_indices, constraint_weights, oob, enable_force_return, enable_pickup_pairs) ==
    [df |-> df,
     trailers |-> trailers,
     manager |-> setup.manager,
     dist_matrix |-> setup.dist_matrix,
     depot_indices |-> depot_indices,
     dims |-> add_dimensions_and_constraints(trailers),
     max_km |-> MaxKmOf(constraint_weights),
     drops |-> IF enable_force_return
               THEN add_force_return_constraints(setup.manager, df, n_services, oob)
               ELSE {},
     pairs |-> IF enable_pickup_pairs
               THEN add_pickup_delivery_pairs(setup.manager, n_services, oob)
               ELSE {}]

\* a constraint names a number that is no index of the model: the library
\* reads its variable tables out of bounds
ConstraintOutOfModel(mdl) ==
    LET N == GetNumberOfIndices(mdl.manager)
    IN  \/ \E pd \in mdl.pairs : pd[1] >= N \/ pd[2] >= N
        \/ \E drop \in mdl.drops : drop >= N

\* run_optimizer line 155: constraint_weights={"ceu": 1.0}
OptimizeWeights == ("ceu" :> 1)

\* the model optimize builds for a batch (lines 142-157): enable_pickup_pairs
\* only
OptimizeModel(setup, df, trailers, oob) ==
    apply_all_constraints(setup, df, trailers, Len(df), setup.starts, OptimizeWeights, oob,
                          FALSE, TRUE)

(***************************************************************************)
(* The assignments of the routing library.  An assignment gives every      *)
(* vehicle the sequence of the nodes it visits between its start and its   *)
(* end; a node that is no start is visited by exactly one vehicle.         *)
(***************************************************************************)
RegularNodes(m) ==
    {node \in 0..(GetNumberOfNodes(m) - 1) : \A v \in Vehicles(m) : m.starts[v] # node}

RECURSIVE Perms(_)
Perms(S) ==
    IF S = {} THEN {<<>>}
    ELSE UNION {{<<x>> \o p : p \in Perms(S \ {x})} : x \in S}

RECURSIVE Splits(_, _)
Splits(p, n) ==
    IF n = 1 THEN {<<p>>}
    ELSE UNION {{<<SubSeq(p, 1, k)>> \o rest : rest \in Splits(SubSeq(p, k + 1, Len(p)), n - 1)} :
                k \in 0..Len(p)}

Assignments(m) == UNION {Splits(p, Len(m.starts)) : p \in Perms(RegularNodes(m))}

\* the indices of vehicle v's route, from Start(v) to End(v)
RouteIndices(m, routes, v) == <<Start(m, v)>> \o routes[v] \o <<End(m, v)>>

\* VehicleVar(idx) and the position of idx on that vehicle's route
VehicleVar(m, routes, idx) ==
    CHOOSE v \in Vehicles(m) :
        \E k \in DOMAIN RouteIndices(m, routes, v) : RouteIndices(m, routes, v)[k] = idx

PositionOf(m, routes, idx) ==
    LET q == RouteIndices(m, routes, VehicleVar(m, routes, idx))
    IN  CHOOSE k \in DOMAIN q : q[k] = idx

\* the cumul of DIST at position k of the route q (slack 0, start at 0)
RECURSIVE DistCumul(_, _, _)
DistCumul(mdl, q, k) ==
    IF k = 1 THEN 0
    ELSE DistCumul(mdl, q, k - 1)
            + safe_dist_lookup(mdl.dist_matrix, mdl.manager, q[k - 1], q[k]).val

\* the cumul of a capacity dimension at position k of the route q
RECURSIVE DemandCumul(_, _, _, _)
DemandCumul(mdl, kind, q, k) ==
    IF k = 1 THEN 0
    ELSE DemandCumul(mdl, kind, q, k - 1)
            + demand(kind, mdl.df, mdl.manager, mdl.depot_indices, q[k - 1])

\* dist_dim.CumulVar(idx)
DistCumulVar(mdl, routes, idx) ==
    DistCumul(mdl, RouteIndices(mdl.manager, routes, VehicleVar(mdl.manager, routes, idx)),
              PositionOf(mdl.manager, routes, idx))

\* NextVar(idx), for an index that is no end
NextVar(m, routes, idx) ==
    RouteIndices(m, routes, VehicleVar(m, routes, idx))[PositionOf(m, routes, idx) + 1]

\* the assignment satisfies every constraint put on the model
Feasible(mdl, routes) ==
    LET m == mdl.manager
    IN  /\ \A v \in Vehicles(m) :
              LET q == RouteIndices(m, routes, v)
              IN  /\ DistCumul(mdl, q, Len(q)) <= mdl.max_km
                  /\ DistCumul(mdl, q, Len(q)) <= BIG_M
                  /\ \A kind \in mdl.dims :
                        \A k \in DOMAIN q :
                            DemandCumul(mdl, kind, q, k) <= KindCaps(mdl.trailers, kind)[v]
        /\ \A pd \in mdl.pairs :
              /\ VehicleVar(m, routes, pd[1]) = VehicleVar(m, routes, pd[2])
              /\ DistCumulVar(mdl, routes, pd[1]) <= DistCumulVar(mdl, routes, pd[2])
        /\ \A drop \in mdl.drops :
              ~IsEnd(m, drop) =>
                  NextVar(m, routes, drop) = End(m, VehicleVar(m, routes, drop))

Solutions(mdl) == {routes \in Assignments(mdl.manager) : Feasible(mdl, routes)}

(***************************************************************************)
(* cluster.agrupar_por_cluster_geografico and the list of clusters the     *)
(* round loop of optimize walks.                                           *)
(***************************************************************************)
\* distance.coordenada_real
coordenada_real(row, tipo) ==
    IF tipo = "load"
    THEN (IF row.load_is_base /\ row.scheduled_base # None
          THEN row.scheduled_base ELSE row.load_city)
    ELSE (IF row.unload_is_base /\ row.scheduled_base # None
          THEN row.scheduled_base ELSE row.unload_city)

\* lines 18-21: the coordinate a row is clustered by, NoCoords when unknown
ClusterCoords(cache, row, tipo) ==
    get_coords(cache, distance_norm(coordenada_real(row, tipo)))

\* lines 22-23: the rows with coordinates
IndicesValidos(cache, df, tipo) ==
    {k \in DOMAIN df : ClusterCoords(cache, df[k], tipo) # NoCoords}

\* lines 25-30: the labels KMeans can give the rows with coordinates.  The
\* clusters are intervals of the coordinate, as many as n_clusters when
\* there are that many different coordinates, none of them empty.
KMeansLabels(cache, df, tipo, n_clusters) ==
    LET valid == IndicesValidos(cache, df, tipo)
        coords == {ClusterCoords(cache, df[k], tipo) : k \in valid}
        found == IF Cardinality(coords) < n_clusters THEN Cardinality(coords) ELSE n_clusters
    IN  {labels \in [valid -> 1..found] :
            /\ \A c \in 1..found : \E k \in valid : labels[k] = c
            /\ \A x, y, z \in valid :
                  (/\ ClusterCoords(cache, df[x], tipo) <= ClusterCoords(cache, df[y], tipo)
                   /\ ClusterCoords(cache, df[y], tipo) <= ClusterCoords(cache, df[z], tipo)
                   /\ labels[x] = labels[z]) => labels[y] = labels[x]}

\* lines 32-38: the groups of the labelled rows in label order; the rows
\* without coordinates have no label and are in no group
GruposPorLabel(df, labels) ==
    LET found == {labels[k] : k \in DOMAIN labels}
    IN  [c \in 1..Cardinality(found) |->
            LET idxs == SelectSeq([k \in DOMAIN df |-> k],
                                  LAMBDA k : k \in DOMAIN labels /\ labels[k] = c)
            IN  [i \in DOMAIN idxs |-> df[idxs[i]]]]

\* run_optimizer lines 97-98: zip_longest, chain, and the None dropped
RECURSIVE ZipChain(_, _)
ZipChain(a, b) ==
    IF a = <<>> THEN b
    ELSE IF b = <<>> THEN a
    ELSE <<Head(a), Head(b)>> \o ZipChain(Tail(a), Tail(b))

N_CLUSTERS_LOAD == 4
N_CLUSTERS_UNLOAD == 2

\* run_optimizer line 101: the rows of the cluster not yet allocated.  The
\* first definition is the line without its filter.
WholeCluster(cluster_df, services_alocados) == cluster_df

FilterAllocated(cluster_df, services_alocados) ==
    SelectSeq(cluster_df, LAMBDA r : r.service_reg \notin services_alocados)

\* line 213 without its filter: the pool is left as it was
KeepPool(trailers_restantes, trailers_usados) == trailers_restantes

\* run_optimizer line 213
RemoveUsed(trailers_restantes, trailers_usados) ==
    SelectSeq(trailers_restantes,
              LAMBDA t : ~\E k \in DOMAIN trailers_usados : trailers_usados[k] = t)

\* persist_routes: one rota per route, its id fresh
NewRotaIds(rota_ids_total, n_routes) == [k \in 1..n_routes |-> Len(rota_ids_total) + k]

ServiceRegs(df) == {df[k].service_reg : k \in DOMAIN df}

(***************************************************************************)
(* optimizer.persist_results.persist_routes                                *)
(* The tables rota and rota_parada are sequences of rows in insertion      *)
(* order; ids_monitorados.rota_id is a function of the service id, 0 for   *)
(* NULL.  Vehicle v of the code is position v + 1.                         *)
(***************************************************************************)
\* run_optimizer lines 185-209: the path of every vehicle, its start node first
ExtractRoutes(m, routes) ==
    [v \in 1..Len(routes) |->
        [vehicle_id |-> v,
         path |-> [k \in 1..(Len(routes[v]) + 1) |->
                      IndexToNode(m, (<<Start(m, v)>> \o routes[v])[k])]]]

\* setup_routing_model lines 212-222: solver index -> row, for the nodes that
\* are row numbers
DfIdxMap(m, n_df) ==
    LET nodes == {node \in 0..(GetNumberOfNodes(m) - 1) : ~(node > n_df - 1)}
    IN  [idx \in {NodeToIndex(m, node) : node \in nodes} |->
            CHOOSE node \in nodes : NodeToIndex(m, node) = idx]

\* df_idx_map.get(node, node)
MapGet(df_idx_map, node) == IF node \in DOMAIN df_idx_map THEN df_idx_map[node] ELSE node

\* 0 <= idx < len(df)
ValidIdx(df, idx) == 0 <= idx /\ idx < Len(df)

\* persist_routes lines 31-40: the scaled CEU of the route
CeuTotal(df, df_idx_map, path) ==
    LET counted == {k \in DOMAIN path :
                       /\ ~(path[k] >= Len(df))
                       /\ ValidIdx(df, MapGet(df_idx_map, path[k]))}
    IN  SumFn([k \in counted |-> df[MapGet(df_idx_map, path[k]) + 1].ceu_int], counted)

\* persist_routes lines 74 and 82
NodeType(node, n_srv) == IF node < n_srv THEN "PICKUP" ELSE "DELIVERY"

\* persist_routes lines 80-97: the row of rota_parada for the node
ParadaRow(df, df_idx_map, rota_id, ordem, node) ==
    [rota_id |-> rota_id,
     ordem |-> ordem,
     service_id |-> df[MapGet(df_idx_map, node) + 1].id,
     node_type |-> NodeType(node, Len(df))]

\* persist_routes lines 100-112: rota_id is set where it is NULL
UpdateRotaId(service_rota, service_id, rota_id) ==
    IF service_id \in DOMAIN service_rota /\ service_rota[service_id] = 0
    THEN [service_rota EXCEPT ![service_id] = rota_id]
    ELSE service_rota

\* persist_routes lines 129-134: the dict comprehension over
\* zip(rota_ids, routes); a later pair overwrites an earlier one
NodeToService(df, df_idx_map, rota_ids, routes) ==
    LET n == Min({Len(rota_ids), Len(routes)})
        hits(i) == {j \in 1..n :
                       \E k \in DOMAIN routes[j].path :
                           /\ routes[j].path[k] < Len(df)
                           /\ ValidIdx(df, MapGet(df_idx_map, routes[j].path[k]))
                           /\ MapGet(df_idx_map, routes[j].path[k]) = i}
    IN  [i \in {i \in 0..(Len(df) - 1) : hits(i) # {}} |->
            rota_ids[CHOOSE j \in hits(i) : \A j2 \in hits(i) : j2 <= j]]

\* persist_routes line 137: the column rota_id of df, 0 for no value
RotaIdColumn(df, node_to_service) ==
    [k \in DOMAIN df |->
        IF (k - 1) \in DOMAIN node_to_service THEN node_to_service[k - 1] ELSE 0]

(***************************************************************************)
(* The state of a part that is not exercised by the running specification. *)
(***************************************************************************)
vars == <<varsNorm, varsDist, varsSel, varsSolve, varsRun, varsPersist, varsCache, varsDisj, varsDemand, varsSubset, varsBase, varsMapBases>>

othersNorm == <<varsDist, varsSel, varsSolve, varsRun, varsPersist, varsCache, varsDisj, varsDemand, varsSubset, varsBase, varsMapBases>>
othersDist == <<varsNorm, varsSel, varsSolve, varsRun, varsPersist, varsCache, varsDisj, varsDemand, varsSubset, varsBase, varsMapBases>>
othersSel == <<varsNorm, varsDist, varsSolve, varsRun, varsPersist, varsCache, varsDisj, varsDemand, varsSubset, varsBase, varsMapBases>>
othersSolve == <<varsNorm, varsDist, varsSel, varsRun, varsPersist, varsCache, varsDisj, varsDemand, varsSubset, varsBase, varsMapBases>>
othersRun == <<varsNorm, varsDist, varsSel, varsSolve, varsPersist, varsCache, varsDisj, varsDemand, varsSubset, varsBase, varsMapBases>>
othersPersist == <<varsNorm, varsDist, varsSel, varsSolve, varsRun, varsCache, varsDisj, varsDemand, varsSubset, varsBase, varsMapBases>>
othersCache == <<varsNorm, varsDist, varsSel, varsSolve, varsRun, varsPersist, varsDisj, varsDemand, varsSubset, varsBase, varsMapBases>>
othersDisj == <<varsNorm, varsDist, varsSel, varsSolve, varsRun, varsPersist, varsCache, varsDemand, varsSubset, varsBase, varsMapBases>>
othersDemand == <<varsNorm, varsDist, varsSel, varsSolve, varsRun, varsPersist, varsCache, varsDisj, varsSubset, varsBase, varsMapBases>>
othersSubset == <<varsNorm, varsDist, varsSel, varsSolve, varsRun, varsPersist, varsCache, varsDisj, varsDemand, varsBase, varsMapBases>>
othersBase == <<varsNorm, varsDist, varsSel, varsSolve, varsRun, varsPersist, varsCache, varsDisj, varsDemand, varsSubset, varsMapBases>>
othersMapBases == <<varsNorm, varsDist, varsSel, varsSolve, varsRun, varsPersist, varsCache, varsDisj, varsDemand, varsSubset, varsBase>>

NoColumn == <<>>

\* hasattr(routing, "_disj_nodes") and the set
NoAttr == [has |-> FALSE, nodes |-> {}]

IdleDisj ==
    /\ dj_pc = "off"
    /\ dj_n_srv = 0
    /\ dj_pickup_ids = <<>>
    /\ dj_disj = <<>>
    /\ dj_attr = NoAttr
    /\ dj_calls = 0

IdleDemand ==
    /\ dm_pc = "off"
    /\ dm_manager = [n_nodes |-> 0, starts |-> <<>>]
    /\ dm_df = <<>>
    /\ dm_call = [fn |-> "none", kind |-> "none", index |-> 0]
    /\ dm_ret = [val |-> 0, raised |-> FALSE]

IdleSubset ==
    /\ ss_pc = "off"
    /\ ss_df = <<>>
    /\ ss_cap = 0
    /\ ss_ret = [df_ok |-> <<>>, df_restante |-> <<>>]

IdleBase ==
    /\ bs_pc = "off"
    /\ bs_base_map = <<>>
    /\ bs_row = <<>>
    /\ bs_call = [tipo |-> "none", real |-> None]

IdleMapBases ==
    /\ mb_pc = "off"
    /\ mb_df = <<>>
    /\ mb_trailers = <<>>
    /\ mb_ret = [raised |-> FALSE, starts |-> <<>>, ends |-> <<>>]

\* the planning runs of one process
Runs == {1, 2}

NotRead == [city |-> None, value |-> NoCoords, by |-> 0]

IdleCache ==
    /\ cc_cache = <<>>
    /\ cc_log = <<>>
    /\ cc_cache_by = <<>>
    /\ cc_log_by = <<>>
    /\ cc_seen = [r \in Runs |-> NotRead]
    /\ cc_export = [r \in Runs |-> <<>>]

IdlePersist ==
    /\ ps_pc = "idle"
    /\ ps_df = <<>>
    /\ ps_routes = <<>>
    /\ ps_trailers = <<>>
    /\ ps_df_idx_map = <<>>
    /\ ps_v = 1
    /\ ps_ordem = 0
    /\ ps_rota_ids = <<>>
    /\ ps_rota = <<>>
    /\ ps_rota_parada = <<>>
    /\ ps_service_rota = <<>>
    /\ ps_log = <<>>
    /\ ps_ret = [rota_ids |-> <<>>, rota_id |-> NoColumn]
    /\ ps_services_alocados = {}

IdleNorm ==
    /\ nm_pc = "idle"
    /\ nm_fn = "norm"
    /\ nm_in = None
    /\ nm_out1 = None
    /\ nm_out2 = None

IdleDist ==
    /\ dl_pc = "idle"
    /\ dl_manager = NewManager(0, <<>>)
    /\ dl_matrix = <<>>
    /\ dl_call = [fn |-> "none", i |-> 0, j |-> 0]
    /\ dl_ret = Returned(0)

IdleSel ==
    /\ sel_pc = "idle"
    /\ sel_df = <<>>
    /\ sel_trailers = <<>>
    /\ sel_st = NewSelection(<<>>)
    /\ sel_work = <<>>
    /\ sel_ret = EarlyResult(<<>>, <<>>)

NoModel == [raised |-> TRUE]
NoRoutes == <<>>

IdleSolve ==
    /\ slv_pc = "idle"
    /\ slv_df = <<>>
    /\ slv_trailers = <<>>
    /\ slv_model = NoModel
    /\ slv_routes = NoRoutes

NoReturn == [rota_ids |-> <<>>, df |-> None]

IdleRun ==
    /\ run_pc = "idle"
    /\ run_df = <<>>
    /\ run_trailers = <<>>
    /\ run_max_voltas = 10
    /\ run_debug = FALSE
    /\ run_clusters = <<>>
    /\ run_rodada = 0
    /\ run_services_alocados = {}
    /\ run_trailers_restantes = <<>>
    /\ run_rota_ids_total = <<>>
    /\ run_ret = NoReturn
    /\ run_batches = <<>>
    /\ run_solved = 0

(***************************************************************************)
(* Specification of the canonicalization: norm applied once and twice.     *)
(***************************************************************************)
InitNorm ==
    /\ IdlePersist
    /\ IdleCache
    /\ IdleMapBases
    /\ IdleBase
    /\ IdleSubset
    /\ IdleDemand
    /\ IdleDisj
    /\ IdleDist
    /\ IdleSel
    /\ IdleSolve
    /\ IdleRun
    /\ nm_pc = "start"
    /\ nm_fn \in {"norm", "_norm"}
    /\ nm_in \in Texts \cup {None}
    /\ nm_out1 = None
    /\ nm_out2 = None

NormOnce ==
    /\ nm_pc = "start"
    /\ nm_out1' = ApplyFn(nm_fn, nm_in)
    /\ nm_pc' = "once"
    /\ UNCHANGED <<nm_fn, nm_in, nm_out2>>
    /\ UNCHANGED othersNorm

NormTwice ==
    /\ nm_pc = "once"
    /\ nm_out2' = ApplyFn(nm_fn, nm_out1)
    /\ nm_pc' = "twice"
    /\ UNCHANGED <<nm_fn, nm_in, nm_out1>>
    /\ UNCHANGED othersNorm

NextNorm == NormOnce \/ NormTwice

SpecNorm == InitNorm /\ [][NextNorm]_vars

(***************************************************************************)
(* Specification of the distance callbacks: one call with any indices.     *)
(***************************************************************************)
MaxDistNodes == 3
MaxDistVehicles == 2

\* a matrix of the shape pad_dist_matrix returns: n x n, non-negative integers
LineMatrix(n) == [a \in 1..n |-> [b \in 1..n |-> IF a > b THEN 10 * (a - b) ELSE 10 * (b - a)]]

InitDist ==
    /\ IdlePersist
    /\ IdleCache
    /\ IdleMapBases
    /\ IdleBase
    /\ IdleSubset
    /\ IdleDemand
    /\ IdleDisj
    /\ IdleNorm
    /\ IdleSel
    /\ IdleSolve
    /\ IdleRun
    /\ dl_pc = "ready"
    /\ \E n \in 1..MaxDistNodes, k \in 1..MaxDistVehicles :
          \E st \in [1..k -> 0..(n - 1)] :
             /\ dl_manager = NewManager(n, st)
             /\ dl_matrix = LineMatrix(n)
    /\ dl_call = [fn |-> "none", i |-> 0, j |-> 0]
    /\ dl_ret = Returned(0)

\* the indices the solver (or a malformed caller) may hand to a callback
CallIndices == (-2)..(GetNumberOfIndices(dl_manager) + 1)

CallCostCb ==
    /\ dl_pc = "ready"
    /\ \E i \in CallIndices, j \in CallIndices :
          /\ dl_call' = [fn |-> "cost_cb", i |-> i, j |-> j]
          /\ dl_ret' = cost_cb(dl_matrix, dl_manager, i, j)
    /\ dl_pc' = "called"
    /\ UNCHANGED <<dl_manager, dl_matrix>>
    /\ UNCHANGED othersDist

CallSafeDistLookup ==
    /\ dl_pc = "ready"
    /\ \E i \in CallIndices, j \in CallIndices :
          /\ dl_call' = [fn |-> "safe_dist_lookup", i |-> i, j |-> j]
          /\ dl_ret' = safe_dist_lookup(dl_matrix, dl_manager, i, j)
    /\ dl_pc' = "called"
    /\ UNCHANGED <<dl_manager, dl_matrix>>
    /\ UNCHANGED othersDist

NextDist == CallCostCb \/ CallSafeDistLookup

SpecDist == InitDist /\ [][NextDist]_vars

(***************************************************************************)
(* Specification of the subset selection: one call, one step per block     *)
(* visited by each of its two loops.                                       *)
(***************************************************************************)
SelMaxRows == 3
SelMaxTrailers == 2

\* ceu_int as utils_df.calculate_ceu scales it
SelCeuInts == {10, 15}
SelBases == {CityA, CityC, None}
SelTrailerBases == {CityA, <<"a">>, CityE}
SelCeuMax == {10, 25}

SelRow(k, ceu, base) ==
    [id |-> k, service_reg |-> k, ceu_int |-> ceu, scheduled_base |-> base]

SelTrailer(k, base, ceu_max) == [id |-> k, base_city |-> base, ceu_max |-> ceu_max]

SelFrames ==
    UNION {{[k \in 1..n |-> SelRow(k, c[k], b[k])] :
                c \in [1..n -> SelCeuInts], b \in [1..n -> SelBases]} : n \in 0..SelMaxRows}

SelTrailerLists ==
    UNION {{[k \in 1..n |-> SelTrailer(k, b[k], c[k])] :
                b \in [1..n -> SelTrailerBases], c \in [1..n -> SelCeuMax]} :
           n \in 0..SelMaxTrailers}

InitSel ==
    /\ IdlePersist
    /\ IdleCache
    /\ IdleMapBases
    /\ IdleBase
    /\ IdleSubset
    /\ IdleDemand
    /\ IdleDisj
    /\ IdleNorm
    /\ IdleDist
    /\ IdleSolve
    /\ IdleRun
    /\ sel_pc = "start"
    /\ sel_df \in SelFrames
    /\ sel_trailers \in SelTrailerLists
    /\ sel_st = NewSelection(sel_trailers)
    /\ sel_work = <<>>
    /\ sel_ret = EarlyResult(<<>>, <<>>)

\* lines 12-13: nothing to select from
SelEarlyReturn ==
    /\ sel_pc = "start"
    /\ (sel_df = <<>> \/ sel_trailers = <<>>)
    /\ sel_ret' = EarlyResult(sel_df, sel_trailers)
    /\ sel_pc' = "done"
    /\ UNCHANGED <<sel_df, sel_trailers, sel_st, sel_work>>
    /\ UNCHANGED othersSel

\* lines 15-50: the counters, the sorted blocks, the bases
SelBegin ==
    /\ sel_pc = "start"
    /\ sel_df # <<>> /\ sel_trailers # <<>>
    /\ sel_work' = BaseWork(Bases(sel_df), ServiceBlocks(sel_df), sel_st.trailer_caps)
    /\ sel_pc' = "base"
    /\ UNCHANGED <<sel_df, sel_trailers, sel_st, sel_ret>>
    /\ UNCHANGED othersSel

\* lines 59-77: one block of the first loop
SelAllocBase ==
    /\ sel_pc = "base"
    /\ sel_work # <<>>
    /\ sel_st' = TryAllocate(sel_st, Head(sel_work).block, Head(sel_work).order)
    /\ sel_work' = Tail(sel_work)
    /\ UNCHANGED <<sel_pc, sel_df, sel_trailers, sel_ret>>
    /\ UNCHANGED othersSel

\* lines 79-83: the first loop is over
SelStartFallback ==
    /\ sel_pc = "base"
    /\ sel_work = <<>>
    /\ sel_work' = FallbackWork(CoordsCache, sel_st, ServiceBlocks(sel_df))
    /\ sel_pc' = "fallback"
    /\ UNCHANGED <<sel_df, sel_trailers, sel_st, sel_ret>>
    /\ UNCHANGED othersSel

\* lines 84-117: one block of the second loop
SelAllocFallback ==
    /\ sel_pc = "fallback"
    /\ sel_work # <<>>
    /\ sel_st' = TryAllocate(sel_st, Head(sel_work).block, Head(sel_work).order)
    /\ sel_work' = Tail(sel_work)
    /\ UNCHANGED <<sel_pc, sel_df, sel_trailers, sel_ret>>
    /\ UNCHANGED othersSel

\* lines 119-130
SelReturn ==
    /\ sel_pc = "fallback"
    /\ sel_work = <<>>
    /\ sel_ret' = SelectionResult(sel_df, sel_trailers, sel_st)
    /\ sel_pc' = "done"
    /\ UNCHANGED <<sel_df, sel_trailers, sel_st, sel_work>>
    /\ UNCHANGED othersSel

NextSel ==
    \/ SelEarlyReturn
    \/ SelBegin
    \/ SelAllocBase
    \/ SelStartFallback
    \/ SelAllocFallback
    \/ SelReturn

SpecSel == InitSel /\ [][NextSel]_vars

(***************************************************************************)
(* Specification of the routing of one batch: the batch the selection      *)
(* forms from the services and trailers of a day, the model                *)
(* setup_routing_model and apply_all_constraints build for it as optimize  *)
(* calls them, and the assignment the solver returns.                      *)
(***************************************************************************)
SlvMaxRows == 2
SlvMaxTrailers == 2

Service(load, unload, base, cat, ceu, force_return) ==
    [load_city |-> load, unload_city |-> unload, scheduled_base |-> base,
     load_is_base |-> FALSE, unload_is_base |-> FALSE,
     vehicle_category_name |-> cat, ceu_int |-> ceu, force_return |-> force_return]

Trailer(base, ceu_max, ligeiro_max, furgo_max) ==
    [base_city |-> base, ceu_max |-> ceu_max, ligeiro_max |-> ligeiro_max,
     furgo_max |-> furgo_max, rodado_max |-> 0]

\* ceu_int as utils_df.calculate_ceu gives it for the category
SlvServices ==
    {Service(CityA, CityC, CityA, "Ligeiro", 10, TRUE),
     Service(CityD, CityAE, CityA, "Ligeiro", 10, FALSE),
     Service(CityAE, CityA, CityC, "Ligeiro", 10, FALSE),
     Service(CityC, CityD, CityA, "Furgao", 15, TRUE),
     Service(CityC, CityC, CityC, "Moto", 3, FALSE),
     Service(CityC, CityE, CityA, "Ligeiro", 10, FALSE),
     Service(CityO, CityC, CityA, "Ligeiro", 10, FALSE)}

SlvTrailers ==
    {Trailer(CityA, 25, 1, 0), Trailer(CityC, 25, 8, 1), Trailer(CityA, 10, 8, 0)}

WithId(k, r) == [id |-> k, service_reg |-> k] @@ r

\* the frames of at most n rows over the services S, ids in row order
Frames(S, n) == UNION {{[k \in 1..m |-> WithId(k, f[k])] : f \in [1..m -> S]} : m \in 0..n}

\* the trailer lists of at most n trailers over T
TrailerLists(T, n) ==
    UNION {{[k \in 1..m |-> [id |-> k] @@ f[k]] : f \in [1..m -> T]} : m \in 0..n}

\* trailers_usados as the list of trailers
TrailersAt(trailers, positions) == [k \in DOMAIN positions |-> trailers[positions[k]]]

InitSolve ==
    /\ IdlePersist
    /\ IdleCache
    /\ IdleMapBases
    /\ IdleBase
    /\ IdleSubset
    /\ IdleDemand
    /\ IdleDisj
    /\ IdleNorm
    /\ IdleDist
    /\ IdleSel
    /\ IdleRun
    /\ slv_pc = "start"
    /\ \E df \in Frames(SlvServices, SlvMaxRows), trailers \in TrailerLists(SlvTrailers, SlvMaxTrailers) :
          LET sel == selecionar_servicos_e_trailers_compativeis(CoordsCache, df, trailers)
          IN  /\ sel.df_usado # <<>>
              /\ sel.trailers_usados # <<>>
              /\ slv_df = sel.df_usado
              /\ slv_trailers = TrailersAt(trailers, sel.trailers_usados)
    /\ slv_model = NoModel
    /\ slv_routes = NoRoutes

SlvSetup == setup_routing_model(CoordsCache, slv_df, slv_trailers)

\* run_optimizer lines 141-145: setup_routing_model raised
SlvSetupRaises ==
    /\ slv_pc = "start"
    /\ SlvSetup.raised
    /\ slv_pc' = "raised"
    /\ UNCHANGED <<slv_df, slv_trailers, slv_model, slv_routes>>
    /\ UNCHANGED othersSolve

\* run_optimizer lines 142-157
SlvApplyConstraints ==
    /\ slv_pc = "start"
    /\ ~SlvSetup.raised
    /\ \E oob \in OutOfBoundsReads(SlvSetup.manager, Len(slv_df)) :
          LET mdl == OptimizeModel(SlvSetup, slv_df, slv_trailers, oob)
          IN  /\ ~ConstraintOutOfModel(mdl)
              /\ slv_model' = mdl
    /\ slv_pc' = "built"
    /\ UNCHANGED <<slv_df, slv_trailers, slv_routes>>
    /\ UNCHANGED othersSolve

\* the same lines when a constraint is put on a number that is no index
SlvCrash ==
    /\ slv_pc = "start"
    /\ ~SlvSetup.raised
    /\ \E oob \in OutOfBoundsReads(SlvSetup.manager, Len(slv_df)) :
          ConstraintOutOfModel(OptimizeModel(SlvSetup, slv_df, slv_trailers, oob))
    /\ slv_pc' = "crashed"
    /\ UNCHANGED <<slv_df, slv_trailers, slv_model, slv_routes>>
    /\ UNCHANGED othersSolve

\* run_optimizer lines 159-178: an assignment is returned
SlvSolve ==
    /\ slv_pc = "built"
    /\ \E routes \in Solutions(slv_model) : slv_routes' = routes
    /\ slv_pc' = "solved"
    /\ UNCHANGED <<slv_df, slv_trailers, slv_model>>
    /\ UNCHANGED othersSolve

\* run_optimizer lines 180-182: both searches end without an assignment.  The
\* model has a handful of nodes and the searches run for minutes: they return
\* an assignment when one exists.
SlvNoSolution ==
    /\ slv_pc = "built"
    /\ Solutions(slv_model) = {}
    /\ slv_pc' = "nosolution"
    /\ UNCHANGED <<slv_df, slv_trailers, slv_model, slv_routes>>
    /\ UNCHANGED othersSolve

NextSolve ==
    \/ SlvSetupRaises
    \/ SlvApplyConstraints
    \/ SlvCrash
    \/ SlvSolve
    \/ SlvNoSolution

SpecSolve == InitSolve /\ [][NextSolve]_vars

(***************************************************************************)
(* Specification of one run of optimize: the clusters, then one round per  *)
(* cluster, then the return.                                               *)
(***************************************************************************)
RunMaxRows == 2
RunMaxTrailers == 2

RunServices ==
    {Service(CityC, CityD, CityA, "Ligeiro", 10, FALSE),
     Service(CityD, CityC, CityA, "Furgao", 15, FALSE),
     Service(CityC, CityO, CityA, "Ligeiro", 10, FALSE),
     Service(CityC, CityD, None, "Ligeiro", 10, FALSE)}

RunTrailers == {Trailer(CityA, 25, 8, 1), Trailer(CityA, 10, 8, 1)}

RunMaxVoltas == {1, 10}

InitRun ==
    /\ IdlePersist
    /\ IdleCache
    /\ IdleMapBases
    /\ IdleBase
    /\ IdleSubset
    /\ IdleDemand
    /\ IdleDisj
    /\ IdleNorm
    /\ IdleDist
    /\ IdleSel
    /\ IdleSolve
    /\ run_pc = "start"
    /\ run_df \in Frames(RunServices, RunMaxRows)
    /\ run_trailers \in TrailerLists(RunTrailers, RunMaxTrailers)
    /\ (run_df = <<>> => run_trailers = <<>>)
    /\ run_max_voltas \in RunMaxVoltas
    /\ run_debug \in BOOLEAN
    /\ run_clusters = <<>>
    /\ run_rodada = 0
    /\ run_services_alocados = {}
    /\ run_trailers_restantes = run_trailers
    /\ run_rota_ids_total = <<>>
    /\ run_ret = NoReturn
    /\ run_batches = <<>>
    /\ run_solved = 0

\* prepare_input_dataframe lines 41-43 and 78-82: with no service loaded, or
\* with no trailer of the asked registry, the frame returned is a new
\* DataFrame without columns, and the trailer list is empty.  The frame of no
\* rows stands for it: a frame that went through make_service_reg has rows.
\* lines 68-69: the column service_reg is missing and ValueError is raised
RunMissingColumn ==
    /\ run_pc = "start"
    /\ run_df = <<>>
    /\ run_pc' = "raised"
    /\ UNCHANGED <<run_df, run_trailers, run_max_voltas, run_debug, run_clusters, run_rodada,
                   run_services_alocados, run_trailers_restantes, run_rota_ids_total, run_ret,
                   run_batches, run_solved>>
    /\ UNCHANGED othersRun

\* lines 70-72
RunEarlyReturn ==
    /\ run_pc = "start"
    /\ run_df # <<>>
    /\ run_trailers = <<>>
    /\ run_ret' = [rota_ids |-> <<>>, df |-> None]
    /\ run_pc' = "done"
    /\ UNCHANGED <<run_df, run_trailers, run_max_voltas, run_debug, run_clusters, run_rodada,
                   run_services_alocados, run_trailers_restantes, run_rota_ids_total,
                   run_batches, run_solved>>
    /\ UNCHANGED othersRun

\* lines 94-95: KMeans is fitted to no sample and raises
RunClusterRaises ==
    /\ run_pc = "start"
    /\ run_df # <<>> /\ run_trailers # <<>>
    /\ \/ IndicesValidos(CoordsCache, run_df, "load") = {}
       \/ IndicesValidos(CoordsCache, run_df, "unload") = {}
    /\ run_pc' = "raised"
    /\ UNCHANGED <<run_df, run_trailers, run_max_voltas, run_debug, run_clusters, run_rodada,
                   run_services_alocados, run_trailers_restantes, run_rota_ids_total, run_ret,
                   run_batches, run_solved>>
    /\ UNCHANGED othersRun

\* lines 84-98
RunCluster ==
    /\ run_pc = "start"
    /\ run_df # <<>> /\ run_trailers # <<>>
    /\ IndicesValidos(CoordsCache, run_df, "load") # {}
    /\ IndicesValidos(CoordsCache, run_df, "unload") # {}
    /\ \E l \in KMeansLabels(CoordsCache, run_df, "load", N_CLUSTERS_LOAD),
          u \in KMeansLabels(CoordsCache, run_df, "unload", N_CLUSTERS_UNLOAD) :
          run_clusters' = ZipChain(GruposPorLabel(run_df, l), GruposPorLabel(run_df, u))
    /\ run_pc' = "loop"
    /\ UNCHANGED <<run_df, run_trailers, run_max_voltas, run_debug, run_rodada,
                   run_services_alocados, run_trailers_restantes, run_rota_ids_total, run_ret,
                   run_batches, run_solved>>
    /\ UNCHANGED othersRun

InRound == run_pc = "loop" /\ run_rodada < Len(run_clusters)

\* lines 101-145 of one round: the rows left of the cluster, the batch and
\* the trailers the selection returns, and what setup_routing_model gives
RoundOf(cluster_df, services_alocados, trailers_restantes) ==
    LET df_restante == FilterAllocated(cluster_df, services_alocados)
        sel == selecionar_servicos_e_trailers_compativeis(CoordsCache, df_restante,
                                                          trailers_restantes)
        trailers_usados == TrailersAt(trailers_restantes, sel.trailers_usados)
    IN  [df_restante |-> df_restante,
         df_usado |-> sel.df_usado,
         trailers_usados |-> trailers_usados,
         setup |-> setup_routing_model(CoordsCache, sel.df_usado, trailers_usados)]

\* lines 147-157: the models the round can build, one per outcome of the reads
\* out of bounds
RoundModels(r) ==
    {OptimizeModel(r.setup, r.df_usado, r.trailers_usados, oob) :
        oob \in OutOfBoundsReads(r.setup.manager, Len(r.df_usado))}

ThisRound == RoundOf(run_clusters[run_rodada + 1], run_services_alocados, run_trailers_restantes)

\* the round gets past lines 104-110
Selects(r, trailers_restantes) ==
    /\ r.df_restante # <<>> /\ trailers_restantes # <<>>
    /\ r.df_usado # <<>> /\ r.trailers_usados # <<>>

\* a `break` in the place of the `continue`: the rounds left are not run
BreakLoop ==
    /\ run_rodada' = Len(run_clusters)
    /\ UNCHANGED <<run_pc, run_df, run_trailers, run_max_voltas, run_debug, run_clusters,
                   run_services_alocados, run_trailers_restantes, run_rota_ids_total, run_ret,
                   run_batches>>
    /\ UNCHANGED othersRun

Continue ==
    /\ run_rodada' = run_rodada + 1
    /\ UNCHANGED <<run_pc, run_df, run_trailers, run_max_voltas, run_debug, run_clusters,
                   run_services_alocados, run_trailers_restantes, run_rota_ids_total, run_ret,
                   run_batches>>
    /\ UNCHANGED othersRun

\* lines 101-105
RunSkipEmpty ==
    /\ InRound
    /\ \E r \in {ThisRound} :
           r.df_restante = <<>> \/ run_trailers_restantes = <<>>
    /\ Continue
    /\ UNCHANGED run_solved

\* lines 107-110
RunSkipNoBatch ==
    /\ InRound
    /\ \E r \in {ThisRound} :
           /\ r.df_restante # <<>> /\ run_trailers_restantes # <<>>
           /\ (r.df_usado = <<>> \/ r.trailers_usados = <<>>)
    /\ Continue
    /\ UNCHANGED run_solved

\* lines 141-145
RunSetupRaises ==
    /\ InRound
    /\ \E r \in {ThisRound} :
           Selects(r, run_trailers_restantes) /\ r.setup.raised
    /\ Continue
    /\ UNCHANGED run_solved

\* lines 147-157 when a constraint is put on a number that is no index
RunCrash ==
    /\ InRound
    /\ \E r \in {ThisRound} :
           /\ Selects(r, run_trailers_restantes)
           /\ ~r.setup.raised
           /\ \E mdl \in RoundModels(r) : ConstraintOutOfModel(mdl)
    /\ run_pc' = "crashed"
    /\ UNCHANGED <<run_df, run_trailers, run_max_voltas, run_debug, run_clusters, run_rodada,
                   run_services_alocados, run_trailers_restantes, run_rota_ids_total, run_ret,
                   run_batches, run_solved>>
    /\ UNCHANGED othersRun

\* lines 147-182: both searches end without an assignment, there being none
RunNoSolution ==
    /\ InRound
    /\ \E r \in {ThisRound} :
           /\ Selects(r, run_trailers_restantes)
           /\ ~r.setup.raised
           /\ \E mdl \in RoundModels(r) : ~ConstraintOutOfModel(mdl) /\ Solutions(mdl) = {}
    /\ Continue
    /\ run_solved' = run_solved + 1

\* lines 147-214: an assignment is returned, its routes are persisted
RunPersist ==
    /\ InRound
    /\ \E r \in {ThisRound} :
           /\ Selects(r, run_trailers_restantes)
           /\ ~r.setup.raised
           /\ \E mdl \in RoundModels(r) : ~ConstraintOutOfModel(mdl) /\ Solutions(mdl) # {}
           /\ run_rota_ids_total' =
                 run_rota_ids_total \o NewRotaIds(run_rota_ids_total, Len(r.trailers_usados))
           /\ run_trailers_restantes' = RemoveUsed(run_trailers_restantes, r.trailers_usados)
           /\ run_services_alocados' = run_services_alocados \cup ServiceRegs(r.df_usado)
           /\ run_batches' = Append(run_batches, ServiceRegs(r.df_usado))
    /\ run_solved' = run_solved + 1
    /\ run_rodada' = run_rodada + 1
    /\ UNCHANGED <<run_pc, run_df, run_trailers, run_max_voltas, run_debug, run_clusters,
                   run_ret>>
    /\ UNCHANGED othersRun

\* line 222
RunReturn ==
    /\ run_pc = "loop"
    /\ run_rodada = Len(run_clusters)
    /\ run_ret' = [rota_ids |-> run_rota_ids_total,
                   df |-> IF run_debug THEN run_df ELSE None]
    /\ run_pc' = "done"
    /\ UNCHANGED <<run_df, run_trailers, run_max_voltas, run_debug, run_clusters, run_rodada,
                   run_services_alocados, run_trailers_restantes, run_rota_ids_total,
                   run_batches, run_solved>>
    /\ UNCHANGED othersRun

NextRun ==
    \/ RunMissingColumn
    \/ RunEarlyReturn
    \/ RunClusterRaises
    \/ RunCluster
    \/ RunSkipEmpty
    \/ RunSkipNoBatch
    \/ RunSetupRaises
    \/ RunCrash
    \/ RunNoSolution
    \/ RunPersist
    \/ RunReturn

SpecRun == InitRun /\ [][NextRun]_vars

(***************************************************************************)
(* SpecPersist: persist_routes on the batch, the trailers and the routes   *)
(* of a round that found an assignment.  Every statement sent to the       *)
(* database succeeds or fails on its own.                                  *)
(***************************************************************************)
\* ids_monitorados.rota_id of a service before the call: NULL or a rota of an
\* earlier day
PriorRotaIds == {0, 9}

InitPersist ==
    /\ IdleCache
    /\ IdleMapBases
    /\ IdleBase
    /\ IdleSubset
    /\ IdleDemand
    /\ IdleDisj
    /\ IdleNorm
    /\ IdleDist
    /\ IdleSel
    /\ IdleSolve
    /\ IdleRun
    /\ ps_pc = "route"
    /\ \E df \in Frames(SlvServices, SlvMaxRows), trailers \in TrailerLists(SlvTrailers, SlvMaxTrailers) :
          \E sel \in {selecionar_servicos_e_trailers_compativeis(CoordsCache, df, trailers)} :
             /\ sel.df_usado # <<>>
             /\ sel.trailers_usados # <<>>
             /\ \E setup \in {setup_routing_model(CoordsCache, sel.df_usado,
                                                  TrailersAt(trailers, sel.trailers_usados))} :
                   /\ ~setup.raised
                   /\ \E oob \in OutOfBoundsReads(setup.manager, Len(sel.df_usado)) :
                         \E mdl \in {OptimizeModel(setup, sel.df_usado,
                                                   TrailersAt(trailers, sel.trailers_usados), oob)} :
                            /\ ~ConstraintOutOfModel(mdl)
                            /\ \E routes \in Solutions(mdl) :
                                  ps_routes = ExtractRoutes(setup.manager, routes)
                   /\ ps_df_idx_map = DfIdxMap(setup.manager, Len(sel.df_usado))
             /\ ps_df = sel.df_usado
             /\ ps_trailers = TrailersAt(trailers, sel.trailers_usados)
    /\ ps_v = 1
    /\ ps_ordem = 0
    /\ ps_rota_ids = <<>>
    /\ ps_rota = <<>>
    /\ ps_rota_parada = <<>>
    /\ ps_service_rota \in [{ps_df[k].id : k \in DOMAIN ps_df} -> PriorRotaIds]
    /\ ps_log = <<>>
    /\ ps_ret = [rota_ids |-> <<>>, rota_id |-> NoColumn]
    /\ ps_services_alocados = {}

PsInputs == <<ps_df, ps_routes, ps_trailers, ps_df_idx_map>>

PsPath == ps_routes[ps_v].path

\* the node at hand and its row number (lines 73-75); ordem counts from 0
PsNode == PsPath[ps_ordem + 1]
PsIdx == MapGet(ps_df_idx_map, PsNode)

\* lines 28-70: the header of the route is inserted and its id returned
PsInsertRota ==
    /\ ps_pc = "route"
    /\ ps_v <= Len(ps_routes)
    /\ \E rota_id \in {Len(ps_rota) + 1} :
          /\ ps_rota' = Append(ps_rota,
                               [id |-> rota_id,
                                trailer_id |-> ps_trailers[ps_routes[ps_v].vehicle_id].id,
                                total_ceu |-> CeuTotal(ps_df, ps_df_idx_map, PsPath)])
          /\ ps_rota_ids' = Append(ps_rota_ids, rota_id)
    /\ ps_pc' = "stops"
    /\ ps_ordem' = 0
    /\ UNCHANGED <<PsInputs, ps_v, ps_rota_parada, ps_service_rota, ps_log, ps_ret, ps_services_alocados>>
    /\ UNCHANGED othersPersist

\* lines 59-62: no id comes back, the route is left out
PsRotaNoId ==
    /\ ps_pc = "route"
    /\ ps_v <= Len(ps_routes)
    /\ ps_log' = Append(ps_log, [what |-> "rota", v |-> ps_v, ordem |-> 0])
    /\ ps_v' = ps_v + 1
    /\ UNCHANGED <<PsInputs, ps_pc, ps_ordem, ps_rota_ids, ps_rota, ps_rota_parada,
                   ps_service_rota, ps_ret, ps_services_alocados>>
    /\ UNCHANGED othersPersist

\* lines 44-58: the insert of the header raises; nothing catches it
PsRotaRaises ==
    /\ ps_pc = "route"
    /\ ps_v <= Len(ps_routes)
    /\ ps_pc' = "raised"
    /\ UNCHANGED <<PsInputs, ps_v, ps_ordem, ps_rota_ids, ps_rota, ps_rota_parada,
                   ps_service_rota, ps_log, ps_ret, ps_services_alocados>>
    /\ UNCHANGED othersPersist

\* lines 73-78: the node has no row
PsSkipNode ==
    /\ ps_pc = "stops"
    /\ ps_ordem < Len(PsPath)
    /\ ~ValidIdx(ps_df, PsIdx)
    /\ ps_ordem' = ps_ordem + 1
    /\ UNCHANGED <<PsInputs, ps_pc, ps_v, ps_rota_ids, ps_rota, ps_rota_parada,
                   ps_service_rota, ps_log, ps_ret, ps_services_alocados>>
    /\ UNCHANGED othersPersist

\* lines 79-112: the stop row is inserted and the service updated
PsInsertParada ==
    /\ ps_pc = "stops"
    /\ ps_ordem < Len(PsPath)
    /\ ValidIdx(ps_df, PsIdx)
    /\ \E row \in {ParadaRow(ps_df, ps_df_idx_map, ps_rota_ids[Len(ps_rota_ids)], ps_ordem, PsNode)} :
          /\ ps_rota_parada' = Append(ps_rota_parada, row)
          /\ ps_service_rota' = UpdateRotaId(ps_service_rota, row.service_id, row.rota_id)
    /\ ps_ordem' = ps_ordem + 1
    /\ UNCHANGED <<PsInputs, ps_pc, ps_v, ps_rota_ids, ps_rota, ps_log, ps_ret, ps_services_alocados>>
    /\ UNCHANGED othersPersist

\* the handler of line 114 leaving the loop over the path: the stops left are
\* not inserted
PsParadaEndsPath ==
    /\ ps_pc = "stops"
    /\ ps_ordem < Len(PsPath)
    /\ ValidIdx(ps_df, PsIdx)
    /\ ps_log' = Append(ps_log, [what |-> "parada", v |-> ps_v, ordem |-> ps_ordem])
    /\ ps_ordem' = Len(PsPath)
    /\ UNCHANGED <<PsInputs, ps_pc, ps_v, ps_rota_ids, ps_rota, ps_rota_parada,
                   ps_service_rota, ps_ret, ps_services_alocados>>
    /\ UNCHANGED othersPersist

\* lines 84-97 and 114-121: the insert of the stop row raises
PsParadaFails ==
    /\ ps_pc = "stops"
    /\ ps_ordem < Len(PsPath)
    /\ ValidIdx(ps_df, PsIdx)
    /\ ps_log' = Append(ps_log, [what |-> "parada", v |-> ps_v, ordem |-> ps_ordem])
    /\ ps_ordem' = ps_ordem + 1
    /\ UNCHANGED <<PsInputs, ps_pc, ps_v, ps_rota_ids, ps_rota, ps_rota_parada,
                   ps_service_rota, ps_ret, ps_services_alocados>>
    /\ UNCHANGED othersPersist

\* lines 100-121: the row is inserted, the update of the service raises
PsUpdateFails ==
    /\ ps_pc = "stops"
    /\ ps_ordem < Len(PsPath)
    /\ ValidIdx(ps_df, PsIdx)
    /\ ps_rota_parada' =
          Append(ps_rota_parada,
                 ParadaRow(ps_df, ps_df_idx_map, ps_rota_ids[Len(ps_rota_ids)], ps_ordem, PsNode))
    /\ ps_log' = Append(ps_log, [what |-> "update", v |-> ps_v, ordem |-> ps_ordem])
    /\ ps_ordem' = ps_ordem + 1
    /\ UNCHANGED <<PsInputs, ps_pc, ps_v, ps_rota_ids, ps_rota, ps_service_rota, ps_ret, ps_services_alocados>>
    /\ UNCHANGED othersPersist

\* line 73: the path is done, the next route is taken
PsNextRoute ==
    /\ ps_pc = "stops"
    /\ ps_ordem = Len(PsPath)
    /\ ps_pc' = "route"
    /\ ps_v' = ps_v + 1
    /\ UNCHANGED <<PsInputs, ps_ordem, ps_rota_ids, ps_rota, ps_rota_parada,
                   ps_service_rota, ps_log, ps_ret, ps_services_alocados>>
    /\ UNCHANGED othersPersist

\* lines 123-139
PsReturn ==
    /\ ps_pc = "route"
    /\ ps_v > Len(ps_routes)
    /\ ps_ret' = [rota_ids |-> ps_rota_ids,
                  rota_id |-> RotaIdColumn(ps_df, NodeToService(ps_df, ps_df_idx_map,
                                                                ps_rota_ids, ps_routes))]
    /\ ps_pc' = "done"
    /\ UNCHANGED <<PsInputs, ps_v, ps_ordem, ps_rota_ids, ps_rota, ps_rota_parada,
                   ps_service_rota, ps_log, ps_services_alocados>>
    /\ UNCHANGED othersPersist

\* run_optimizer lines 211-214: persist_routes has returned, the services of
\* the batch are added to services_alocados
PsAllocate ==
    /\ ps_pc = "done"
    /\ ps_services_alocados' = ps_services_alocados \cup ServiceRegs(ps_df)
    /\ ps_pc' = "allocated"
    /\ UNCHANGED <<PsInputs, ps_v, ps_ordem, ps_rota_ids, ps_rota, ps_rota_parada,
                   ps_service_rota, ps_log, ps_ret>>
    /\ UNCHANGED othersPersist

NextPersist ==
    \/ PsInsertRota
    \/ PsRotaNoId
    \/ PsRotaRaises
    \/ PsSkipNode
    \/ PsInsertParada
    \/ PsParadaFails
    \/ PsUpdateFails
    \/ PsNextRoute
    \/ PsReturn
    \/ PsAllocate

SpecPersist == InitPersist /\ [][NextPersist]_vars

(***************************************************************************)
(* SpecCache: two planning runs of one process calling register_coords,    *)
(* get_coords and exportar_cidades_invalidas_csv in any interleaving.  The *)
(* three functions have no await: each call is one step.                   *)
(***************************************************************************)
CcMaxLog == 2

\* the keys of the coords_map a run registers, and the cities it asks for
CcRegistered == {CityA, <<"c">>}
CcAsked == {CityA, CityC, None}
CcCoords == {0, 50}

InitCache ==
    /\ IdlePersist
    /\ IdleMapBases
    /\ IdleBase
    /\ IdleSubset
    /\ IdleDemand
    /\ IdleDisj
    /\ IdleNorm
    /\ IdleDist
    /\ IdleSel
    /\ IdleSolve
    /\ IdleRun
    /\ cc_cache = <<>>
    /\ cc_log = <<>>
    /\ cc_cache_by = <<>>
    /\ cc_log_by = <<>>
    /\ cc_seen = [r \in Runs |-> NotRead]
    /\ cc_export = [r \in Runs |-> <<>>]

\* distance.register_coords lines 47-49, for a coords_map of one city
CcRegisterCoords ==
    \E r \in Runs, city \in CcRegistered, coord \in CcCoords :
        \E norm_name \in {distance_norm(city)} :
            /\ cc_cache' = [n \in DOMAIN cc_cache \cup {norm_name} |->
                               IF n = norm_name THEN coord ELSE cc_cache[n]]
            /\ cc_cache_by' = [n \in DOMAIN cc_cache \cup {norm_name} |->
                                  IF n = norm_name THEN r ELSE cc_cache_by[n]]
            /\ UNCHANGED <<cc_log, cc_log_by, cc_seen, cc_export>>
            /\ UNCHANGED othersCache

\* distance.get_coords lines 104-113: the city is unknown, the entry is logged
CcGetCoordsMiss ==
    \E r \in Runs, city \in CcAsked :
        /\ get_coords(cc_cache, city) = NoCoords
        /\ Len(cc_log) < CcMaxLog
        /\ cc_log' = Append(cc_log, [cidade_original |-> city,
                                     cidade_normalizada |-> distance_norm(city)])
        /\ cc_log_by' = Append(cc_log_by, r)
        /\ cc_seen' = [cc_seen EXCEPT ![r] = [city |-> city, value |-> NoCoords, by |-> 0]]
        /\ UNCHANGED <<cc_cache, cc_cache_by, cc_export>>
        /\ UNCHANGED othersCache

\* distance.get_coords line 115
CcGetCoordsHit ==
    \E r \in Runs, city \in CcAsked :
        /\ get_coords(cc_cache, city) # NoCoords
        /\ cc_seen' = [cc_seen EXCEPT ![r] = [city |-> city,
                                              value |-> get_coords(cc_cache, city),
                                              by |-> cc_cache_by[distance_norm(city)]]]
        /\ UNCHANGED <<cc_cache, cc_log, cc_cache_by, cc_log_by, cc_export>>
        /\ UNCHANGED othersCache

\* distance.exportar_cidades_invalidas_csv lines 121-135; with an empty log the
\* function returns at line 123 and writes nothing
CcExport ==
    /\ cc_log # <<>>
    /\ \E r \in Runs :
          cc_export' = [cc_export EXCEPT ![r] =
                           [k \in DOMAIN cc_log |-> [row |-> cc_log[k], by |-> cc_log_by[k]]]]
    /\ UNCHANGED <<cc_cache, cc_log, cc_cache_by, cc_log_by, cc_seen>>
    /\ UNCHANGED othersCache

NextCache ==
    \/ CcRegisterCoords
    \/ CcGetCoordsMiss
    \/ CcGetCoordsHit
    \/ CcExport

SpecCache == InitCache /\ [][NextCache]_vars

(***************************************************************************)
(* SpecDisj: calls of interno_penalties on one routing model whose nodes   *)
(* 0..2n-1 are the pickup and delivery nodes, node 2n the depot.  What     *)
(* routing.AssignmentOrNull gives is the library's affair: the call may    *)
(* fail, give None or give an object, whatever disjunctions the model has. *)
(***************************************************************************)
DjMaxSrv == 2
DjMaxIds == 2
DjMaxCalls == 2

DjManager == [n_nodes |-> 2 * dj_n_srv + 1, starts |-> <<2 * dj_n_srv>>]

\* the pickup_ids lists of a call: services may repeat
DjPickupIds == UNION {[1..m -> 0..(dj_n_srv - 1)] : m \in 0..DjMaxIds}

InitDisj ==
    /\ IdlePersist
    /\ IdleCache
    /\ IdleMapBases
    /\ IdleBase
    /\ IdleSubset
    /\ IdleDemand
    /\ IdleNorm
    /\ IdleDist
    /\ IdleSel
    /\ IdleSolve
    /\ IdleRun
    /\ dj_pc = "idle"
    /\ dj_n_srv \in 1..DjMaxSrv
    /\ dj_pickup_ids = <<>>
    /\ dj_disj = <<>>
    /\ dj_attr = NoAttr
    /\ dj_calls = 0

\* lines 17-18: the call begins
DjCall ==
    /\ dj_pc = "idle"
    /\ dj_calls < DjMaxCalls
    /\ dj_pickup_ids' \in DjPickupIds
    /\ dj_attr' = IF dj_attr.has THEN dj_attr ELSE [has |-> TRUE, nodes |-> {}]
    /\ dj_calls' = dj_calls + 1
    /\ dj_pc' = "loop"
    /\ UNCHANGED <<dj_n_srv, dj_disj>>
    /\ UNCHANGED othersDisj

\* the indices of lines 21-22 for the service at hand
DjP == NodeToIndex(DjManager, Head(dj_pickup_ids))
DjD == NodeToIndex(DjManager, Head(dj_pickup_ids) + dj_n_srv)

\* lines 20-32: AssignmentOrNull gives an object for p or for d, or an
\* index is negative: the service is skipped
DjSkip ==
    /\ dj_pc = "loop"
    /\ dj_pickup_ids # <<>>
    /\ dj_pickup_ids' = Tail(dj_pickup_ids)
    /\ UNCHANGED <<dj_pc, dj_n_srv, dj_disj, dj_attr, dj_calls>>
    /\ UNCHANGED othersDisj

\* lines 20-34: AssignmentOrNull gives None for both, the pair is added
DjAddDisjunction ==
    /\ dj_pc = "loop"
    /\ dj_pickup_ids # <<>>
    /\ ~(DjP < 0 \/ DjD < 0)
    /\ dj_disj' = Append(dj_disj, {DjP, DjD})
    /\ dj_pickup_ids' = Tail(dj_pickup_ids)
    /\ UNCHANGED <<dj_pc, dj_n_srv, dj_attr, dj_calls>>
    /\ UNCHANGED othersDisj

\* lines 28-31: the routing model has no attribute AssignmentOrNull
DjRaises ==
    /\ dj_pc = "loop"
    /\ dj_pickup_ids # <<>>
    /\ ~(DjP < 0 \/ DjD < 0)
    /\ dj_pc' = "raised"
    /\ UNCHANGED <<dj_n_srv, dj_pickup_ids, dj_disj, dj_attr, dj_calls>>
    /\ UNCHANGED othersDisj

\* line 20: the list is done
DjReturn ==
    /\ dj_pc = "loop"
    /\ dj_pickup_ids = <<>>
    /\ dj_pc' = "idle"
    /\ UNCHANGED <<dj_n_srv, dj_pickup_ids, dj_disj, dj_attr, dj_calls>>
    /\ UNCHANGED othersDisj

NextDisj ==
    \/ DjCall
    \/ DjSkip
    \/ DjAddDisjunction
    \/ DjRaises
    \/ DjReturn

SpecDisj == InitDisj /\ [][NextDisj]_vars

(***************************************************************************)
(* SpecDemand: one call of a demand callback with any index.  IndexToNode  *)
(* does not check its argument: for a number that is no index it may       *)
(* raise or give any number.                                               *)
(***************************************************************************)
DmMaxRows == 2
DmMaxNodes == 3

DmRow(cat) == [ceu_int |-> 10, ceu_std |-> 10, vehicle_category_name |-> cat]

DmFrames == UNION {[1..n -> {DmRow("Ligeiro"), DmRow("Furgao")}] : n \in 1..DmMaxRows}

\* the indices the solver (or a malformed caller) may hand to a callback
DmIndices == (-1)..(GetNumberOfIndices(dm_manager) + 1)

IsIndex(m, idx) == 0 <= idx /\ idx < GetNumberOfIndices(m)

\* what manager.IndexToNode(idx) does: the node of an index, anything else
\* for a number that is no index
IndexReads(m, idx) ==
    IF IsIndex(m, idx) THEN {[raised |-> FALSE, node |-> IndexToNode(m, idx)]}
    ELSE {[raised |-> TRUE, node |-> 0]}
             \cup {[raised |-> FALSE, node |-> k] : k \in (-1)..GetNumberOfNodes(m)}

\* callbacks.ceu_cap.ceu_dimension.demand, lines 13-20
ceu_dimension_demand(df, read) ==
    IF read.raised THEN 0
    ELSE IF 0 <= read.node /\ read.node < Len(df) THEN df[read.node + 1].ceu_std
    ELSE 0

InitDemand ==
    /\ IdlePersist
    /\ IdleCache
    /\ IdleMapBases
    /\ IdleBase
    /\ IdleSubset
    /\ IdleDisj
    /\ IdleNorm
    /\ IdleDist
    /\ IdleSel
    /\ IdleSolve
    /\ IdleRun
    /\ dm_pc = "ready"
    /\ \E n \in 1..DmMaxNodes : \E st \in [1..1 -> 0..(n - 1)] : dm_manager = NewManager(n, st)
    /\ dm_df \in DmFrames
    /\ dm_call = [fn |-> "none", kind |-> "none", index |-> 0]
    /\ dm_ret = [val |-> 0, raised |-> FALSE]

\* routing.create_demand_callbacks: the callback of one kind is called
CallBuildDemand ==
    /\ dm_pc = "ready"
    /\ \E kind \in Kinds, index \in DmIndices :
          /\ dm_call' = [fn |-> "build_demand", kind |-> kind, index |-> index]
          /\ dm_ret' = Returned(demand(kind, dm_df, dm_manager, dm_manager.starts, index))
    /\ dm_pc' = "called"
    /\ UNCHANGED <<dm_manager, dm_df>>
    /\ UNCHANGED othersDemand

\* callbacks.ceu_cap.ceu_dimension: its callback is called
CallCeuDimensionDemand ==
    /\ dm_pc = "ready"
    /\ \E index \in DmIndices :
          /\ dm_call' = [fn |-> "ceu_dimension", kind |-> "ceu", index |-> index]
          /\ \E read \in IndexReads(dm_manager, index) :
                dm_ret' = Returned(ceu_dimension_demand(dm_df, read))
    /\ dm_pc' = "called"
    /\ UNCHANGED <<dm_manager, dm_df>>
    /\ UNCHANGED othersDemand

NextDemand ==
    \/ CallBuildDemand
    \/ CallCeuDimensionDemand

SpecDemand == InitDemand /\ [][NextDemand]_vars

(***************************************************************************)
(* routing.selecionar_subconjunto_compativel                               *)
(***************************************************************************)
SsMaxRows == 3
SsCeus == {5, 10, 15, 20}
SsCaps == {0, 10, 20, 30}

\* the frames: rows with distinct ids 1..n and any ceu_int
SsFrames ==
    UNION {{[k \in 1..n |-> [id |-> k, ceu_int |-> c[k]]] : c \in [1..n -> SsCeus]} :
             n \in 0..SsMaxRows}

\* df.sort_values(by="ceu_int", ascending=False).reset_index(drop=True)
SortByCeuDesc(df) ==
    LET perm == SortPerm([k \in DOMAIN df |-> 0 - df[k].ceu_int])
    IN [k \in DOMAIN df |-> df[perm[k]]]

\* the loop over df.iterrows(): the positions appended to indices_ok before
\* the first row that does not fit (break), from position i with carga_total
RECURSIVE IndicesOk(_, _, _, _)
IndicesOk(df, trailer_cap_ceu, i, carga_total) ==
    IF i > Len(df) THEN {}
    ELSE IF carga_total + df[i].ceu_int <= trailer_cap_ceu
         THEN {i} \cup IndicesOk(df, trailer_cap_ceu, i + 1, carga_total + df[i].ceu_int)
         ELSE {}

\* df.loc[indices].reset_index(drop=True) / df.drop(indices).reset_index(drop=True)
RowsAt(df, keep) == SelectSeq(df, LAMBDA r : \E k \in keep : df[k] = r)

selecionar_subconjunto_compativel(df, trailer_cap_ceu) ==
    LET sorted == SortByCeuDesc(df)
        indices_ok == IndicesOk(sorted, trailer_cap_ceu, 1, 0)
    IN [df_ok |-> RowsAt(sorted, indices_ok),
        df_restante |-> RowsAt(sorted, DOMAIN sorted \ indices_ok)]

InitSubset ==
    /\ IdlePersist
    /\ IdleCache
    /\ IdleMapBases
    /\ IdleBase
    /\ IdleDisj
    /\ IdleDemand
    /\ IdleNorm
    /\ IdleDist
    /\ IdleSel
    /\ IdleSolve
    /\ IdleRun
    /\ ss_pc = "ready"
    /\ ss_df \in SsFrames
    /\ ss_cap \in SsCaps
    /\ ss_ret = [df_ok |-> <<>>, df_restante |-> <<>>]

\* one call of the function
SsCall ==
    /\ ss_pc = "ready"
    /\ ss_ret' = selecionar_subconjunto_compativel(ss_df, ss_cap)
    /\ ss_pc' = "returned"
    /\ UNCHANGED <<ss_df, ss_cap>>
    /\ UNCHANGED othersSubset

NextSubset ==
    \/ SsCall

SpecSubset == InitSubset /\ [][NextSubset]_vars

(***************************************************************************)
(* The base fields prepare_input_dataframe gives a service (rules.py) and   *)
(* distance.coordenada_real, the location the clustering uses for it.      *)
(***************************************************************************)
BsCities == {CityA, CityC, CityD, CityE}
BsBases == {CityA, CityD}
EmptyCity == <<>>

\* rule_return_city: some cities have a base
BsBaseMaps == UNION {[S -> BsBases] : S \in SUBSET BsCities}

\* rules._get_base_for_city
get_base_for_city(city, base_map) ==
    IF city = EmptyCity THEN None
    ELSE DictGet(base_map, norm(city), None)

\* rules.is_base_location
is_base_location(city, base_map) ==
    IF city = EmptyCity THEN FALSE ELSE norm(city) \in DOMAIN base_map

\* rules.must_return_to_base
must_return_to_base(row, base_map) == get_base_for_city(row.unload_city, base_map) # None

\* rules.get_scheduled_base
get_scheduled_base(row, base_map) ==
    LET load == get_base_for_city(row.load_city, base_map)
    IN  IF load # None /\ load # EmptyCity THEN load
        ELSE get_base_for_city(row.unload_city, base_map)

\* prepare_input lines 49-53: flag_return_and_base_fields, then scheduled_base
PrepareBaseFields(row, base_map) ==
    [load_city |-> row.load_city, unload_city |-> row.unload_city,
     force_return |-> must_return_to_base(row, base_map),
     load_is_base |-> is_base_location(row.load_city, base_map),
     unload_is_base |-> is_base_location(row.unload_city, base_map),
     scheduled_base |-> get_scheduled_base(row, base_map)]

InitBase ==
    /\ IdlePersist
    /\ IdleCache
    /\ IdleMapBases
    /\ IdleDisj
    /\ IdleDemand
    /\ IdleSubset
    /\ IdleNorm
    /\ IdleDist
    /\ IdleSel
    /\ IdleSolve
    /\ IdleRun
    /\ bs_pc = "loaded"
    /\ bs_base_map \in BsBaseMaps
    /\ \E load \in BsCities \cup {EmptyCity}, unload \in BsCities \cup {EmptyCity} :
          bs_row = [load_city |-> load, unload_city |-> unload]
    /\ bs_call = [tipo |-> "none", real |-> None]

\* prepare_input_dataframe gives the row its base fields
BsPrepare ==
    /\ bs_pc = "loaded"
    /\ bs_row' = PrepareBaseFields(bs_row, bs_base_map)
    /\ bs_pc' = "prepared"
    /\ UNCHANGED <<bs_base_map, bs_call>>
    /\ UNCHANGED othersBase

\* agrupar_por_cluster_geografico asks for the location of one side
BsCoordenadaReal ==
    /\ bs_pc = "prepared"
    /\ \E tipo \in {"load", "unload"} :
          bs_call' = [tipo |-> tipo, real |-> coordenada_real(bs_row, tipo)]
    /\ bs_pc' = "clustered"
    /\ UNCHANGED <<bs_base_map, bs_row>>
    /\ UNCHANGED othersBase

NextBase ==
    \/ BsPrepare
    \/ BsCoordenadaReal

SpecBase == InitBase /\ [][NextBase]_vars

(***************************************************************************)
(* city_mapping.map_bases_to_indices, called as setup_routing_model calls  *)
(* it: with the city index map of the batch.                               *)
(***************************************************************************)
MbMaxTrailers == 3

\* base_city of a trailer row: a city, blank, empty or NULL
MbBaseCities == {CityA, CityD, <<Space>>, <<>>, None}

MbTrailers ==
    UNION {{[k \in 1..n |-> [id |-> k, base_city |-> b[k]]] : b \in [1..n -> MbBaseCities]} :
             n \in 1..MbMaxTrailers}

MbFrames ==
    {<<[load_city |-> load, unload_city |-> unload]>> :
        load \in {CityA, CityC}, unload \in {CityA, CityD}}

InitMapBases ==
    /\ IdlePersist
    /\ IdleCache
    /\ IdleBase
    /\ IdleDisj
    /\ IdleDemand
    /\ IdleSubset
    /\ IdleNorm
    /\ IdleDist
    /\ IdleSel
    /\ IdleSolve
    /\ IdleRun
    /\ mb_pc = "ready"
    /\ mb_df \in MbFrames
    /\ mb_trailers \in MbTrailers
    /\ mb_ret = [raised |-> FALSE, starts |-> <<>>, ends |-> <<>>]

\* setup_model line 179: the call returns starts, ends
MbReturn ==
    /\ mb_pc = "ready"
    /\ \E locations \in {get_unique_cities(mb_df, mb_trailers)} :
          /\ ~MapBasesRaises(mb_trailers, locations)
          /\ mb_ret' = [raised |-> FALSE,
                        starts |-> map_bases_to_indices(mb_trailers, locations),
                        ends |-> map_bases_to_indices(mb_trailers, locations)]
    /\ mb_pc' = "returned"
    /\ UNCHANGED <<mb_df, mb_trailers>>
    /\ UNCHANGED othersMapBases

\* the call raises ValueError
MbRaises ==
    /\ mb_pc = "ready"
    /\ MapBasesRaises(mb_trailers, get_unique_cities(mb_df, mb_trailers))
    /\ mb_ret' = [raised |-> TRUE, starts |-> <<>>, ends |-> <<>>]
    /\ mb_pc' = "raised"
    /\ UNCHANGED <<mb_df, mb_trailers>>
    /\ UNCHANGED othersMapBases

NextMapBases ==
    \/ MbReturn
    \/ MbRaises

SpecMapBases == InitMapBases /\ [][NextMapBases]_vars

(***************************************************************************)
(* The claims.                                                             *)
(***************************************************************************)
\* C5: canonicalization is idempotent, norm(norm(x)) = norm(x) for every
\* input x, for utils.norm and distance._norm alike.
C5_NormIdempotent == nm_pc = "twice" => nm_out2 = nm_out1

IndexOutOfRange(idx) == idx < 0 \/ idx >= GetNumberOfIndices(dl_manager)

SentinelOf(fn) ==
    IF fn = "cost_cb" THEN setup_model_DEFAULT_PENALTY ELSE routing_DEFAULT_PENALTY

\* C6: a distance lookup used as a transit callback never raises and returns
\* the sentinel penalty whenever one of its two indices is out of range
\* (negative or too large).
C6_DistLookupSentinel ==
    (dl_pc = "called" /\ (IndexOutOfRange(dl_call.i) \/ IndexOutOfRange(dl_call.j)))
        => (~dl_ret.raised /\ dl_ret.val = SentinelOf(dl_call.fn))

\* the scaled CEU of the blocks that alocacoes_por_trailer puts on trailer t
AssignedCeu(t) ==
    LET regs == sel_st.alocacoes_por_trailer[t]
        blocks == ServiceBlocks(sel_df)
    IN  SumFn([k \in DOMAIN regs |->
                  (CHOOSE b \in {blocks[j] : j \in DOMAIN blocks} :
                       b.service_reg = regs[k]).ceu],
              DOMAIN regs)

\* C2: at every step of the selection and at its return, the scaled CEU of the
\* blocks assigned to a trailer is at most the trailer's scaled ceu_max: the
\* remaining-capacity counter stays within 0..cap and is cap minus that sum.
C2_BinPacking ==
    sel_pc \in {"base", "fallback", "done"} =>
        \A t \in DOMAIN sel_st.trailer_caps :
            LET c == sel_st.trailer_caps[t]
            IN  /\ AssignedCeu(t) <= c.cap
                /\ c.cap = sel_trailers[t].ceu_max
                /\ 0 <= c.restante /\ c.restante <= c.cap
                /\ c.restante = c.cap - AssignedCeu(t)

\* a trailer holds two blocks and has refused nothing it could not hold
C2_Witness ==
    /\ sel_pc = "done"
    /\ \E t \in DOMAIN sel_st.trailer_caps :
          /\ Len(sel_st.alocacoes_por_trailer[t]) >= 2
          /\ sel_st.trailer_caps[t].restante < 10
    /\ Len(sel_ret.df_restante) >= 1

\* the services of the batch whose pickup node i and delivery node i + n_srv
\* (constraints.add_pickup_delivery_pairs, lines 43-52) are nodes of the model
PairedServices ==
    {i \in 0..(Len(slv_df) - 1) : i + Len(slv_df) < GetNumberOfNodes(slv_model.manager)}

RealDemand(kind, row) ==
    LET cat == CategoryWords[row.vehicle_category_name]
    IN  CASE kind = "ceu" -> row.ceu_int
          [] kind = "lig" -> IF "moto" \in cat THEN 0 ELSE 1
          [] kind = "fur" -> IF "furg" \in cat THEN 1 ELSE 0
          [] kind = "rod" -> IF "rodado" \in cat THEN 1 ELSE 0

\* the services whose pickup node is on the route of vehicle v
PickedUpBy(v) ==
    {i \in 0..(Len(slv_df) - 1) :
        /\ i < GetNumberOfNodes(slv_model.manager)
        /\ VehicleVar(slv_model.manager, slv_routes, NodeToIndex(slv_model.manager, i)) = v}

PendingInOutput(ret) ==
    IF ret.df = None THEN {}
    ELSE {ret.df[k].service_reg : k \in {j \in DOMAIN ret.df : "pending" \in DOMAIN ret.df[j]}}

\* C8: when optimize returns, every service of the day that no round routed is
\* in the run's output as pending.
C8_PendingSurfaced ==
    run_pc = "done" =>
        \A k \in DOMAIN run_df :
            run_df[k].service_reg \notin UNION {run_batches[i] : i \in DOMAIN run_batches}
                => run_df[k].service_reg \in PendingInOutput(run_ret)

\* the services of the day no round allocated
Unallocated == SelectSeq(run_df, LAMBDA r : r.service_reg \notin run_services_alocados)

\* a batch of some of the services that remain can be formed with the trailers
\* that remain, and it has a routing
FeasibleBatch(df, trailers) ==
    LET r == RoundOf(df, {}, trailers)
    IN  /\ Selects(r, trailers)
        /\ ~r.setup.raised
        /\ \E mdl \in RoundModels(r) : ~ConstraintOutOfModel(mdl) /\ Solutions(mdl) # {}

BatchCanBeFormed ==
    \E keep \in (SUBSET ServiceRegs(Unallocated)) \ {{}} :
        FeasibleBatch(SelectSeq(Unallocated, LAMBDA r : r.service_reg \in keep),
                      run_trailers_restantes)

TrailerSet(trailers) == {trailers[k] : k \in DOMAIN trailers}

RoundHasNoSolution ==
    /\ InRound
    /\ \E r \in {ThisRound} :
           /\ Selects(r, run_trailers_restantes)
           /\ ~r.setup.raised
           /\ \A mdl \in RoundModels(r) : ~ConstraintOutOfModel(mdl) => Solutions(mdl) = {}
           /\ \E mdl \in RoundModels(r) : ~ConstraintOutOfModel(mdl)

Logged(what, v, ordem) ==
    \E i \in DOMAIN ps_log : ps_log[i] = [what |-> what, v |-> v, ordem |-> ordem]

\* the routes whose header came back with an id, in the order of the call
RoutesWithHeader == SelectSeq([v \in 1..Len(ps_routes) |-> v], LAMBDA v : ~Logged("rota", v, 0))

\* the stop rows a route owes under its rota id: one for every node of its
\* path that has a row and whose insert did not fail, in the order of the path
RECURSIVE RowsOwed(_, _, _)
RowsOwed(v, rota_id, ordem) ==
    IF ordem >= Len(ps_routes[v].path) THEN <<>>
    ELSE (IF /\ ValidIdx(ps_df, MapGet(ps_df_idx_map, ps_routes[v].path[ordem + 1]))
             /\ ~Logged("parada", v, ordem)
          THEN <<ParadaRow(ps_df, ps_df_idx_map, rota_id, ordem, ps_routes[v].path[ordem + 1])>>
          ELSE <<>>) \o RowsOwed(v, rota_id, ordem + 1)

RECURSIVE AllRowsOwed(_)
AllRowsOwed(k) ==
    IF k > Len(RoutesWithHeader) THEN <<>>
    ELSE RowsOwed(RoutesWithHeader[k], ps_rota_ids[k], 0) \o AllRowsOwed(k + 1)

PsDepotNodes == {ps_routes[v].path[1] : v \in DOMAIN ps_routes}

\* the stop rows written under the rota id of the k-th persisted route
RowsOf(k) == SelectSeq(ps_rota_parada, LAMBDA row : row.rota_id = ps_rota_ids[k])

\* the nodes of a path that are the pickup node i or the delivery node
\* i + n_srv of a service (constraints.py lines 46-56), in path order
ServiceStops(path) ==
    SelectSeq([k \in DOMAIN path |-> [ordem |-> k - 1, node |-> path[k]]],
              LAMBDA s : s.node \notin PsDepotNodes /\ s.node < 2 * Len(ps_df))

\* C14: with no failed statement, every persisted route has exactly one stop
\* row per service node of its path, in the order of the visit, with the id
\* of the node's service and PICKUP for the node i, DELIVERY for i + n_srv.
C14_OneStopRowPerServiceNode ==
    (ps_pc = "done" /\ ps_log = <<>>) =>
        \A k \in DOMAIN ps_rota_ids :
            \E stops \in {ServiceStops(ps_routes[k].path)} :
                RowsOf(k) =
                    [j \in DOMAIN stops |->
                        [rota_id |-> ps_rota_ids[k],
                         ordem |-> stops[j].ordem,
                         service_id |-> ps_df[(stops[j].node % Len(ps_df)) + 1].id,
                         node_type |-> IF stops[j].node < Len(ps_df) THEN "PICKUP"
                                       ELSE "DELIVERY"]]

\* C15: a run whose eligible service set is empty, or that has no usable
\* trailer, ends with the empty list of rota ids, with no batch selected, no
\* solver call and nothing persisted.
C15_InputErrorsReturnEmpty ==
    (run_pc \notin {"idle", "start"} /\ (run_df = <<>> \/ run_trailers = <<>>)) =>
        /\ run_pc = "done"
        /\ run_ret.rota_ids = <<>>
        /\ run_batches = <<>>
        /\ run_solved = 0
        /\ run_rota_ids_total = <<>>

\* C16: the coordinate cache and the invalid-city log belong to the run that
\* made them: what a run reads from the cache was registered by that run, and
\* the rows a run exports were logged by that run.
C16_CachesOwnedByRun ==
    \A r \in Runs :
        /\ cc_seen[r].value # NoCoords => cc_seen[r].by = r
        /\ \A k \in DOMAIN cc_export[r] : cc_export[r][k].by = r

\* the scaled CEU of a frame and the scaled capacity of a trailer list
FrameCeu(df) == SumFn([k \in DOMAIN df |-> df[k].ceu_int], DOMAIN df)
FleetCeu(trailers) == SumFn([k \in DOMAIN trailers |-> trailers[k].ceu_max], DOMAIN trailers)

\* C17: when the services hold more scaled CEU than the fleet can take, the
\* selection returns a used set of at most the fleet's CEU and a pending set
\* that is not empty, and it returns what the function of the frame and of
\* the trailer list gives.
C17_OverloadLeavesPending ==
    (sel_pc = "done" /\ FrameCeu(sel_df) > FleetCeu(sel_trailers)) =>
        /\ FrameCeu(sel_ret.df_usado) <= FleetCeu(sel_trailers)
        /\ sel_ret.df_restante # <<>>
        /\ sel_ret = selecionar_servicos_e_trailers_compativeis(CoordsCache, sel_df, sel_trailers)

\* the scaled demand of a service for one capacity kind
ServiceDemand(kind, row) ==
    CASE kind = "ceu" -> row.ceu_int
      [] kind = "lig" -> IF "moto" \in CategoryWords[row.vehicle_category_name] THEN 0 ELSE 1
      [] kind = "fur" -> IF "furg" \in CategoryWords[row.vehicle_category_name] THEN 1 ELSE 0
      [] kind = "rod" -> IF "rodado" \in CategoryWords[row.vehicle_category_name] THEN 1 ELSE 0

ModelBuilt == slv_pc \in {"built", "solved", "nosolution"}

\* C18: for every capacity kind the demand callback of the batch's model gives
\* 0 at every depot node that is no pickup node, the scaled demand of service
\* i at its pickup node i, also when i is a depot index, and 0 at its delivery
\* node i + n.
C18_DemandSemantics ==
    ModelBuilt =>
        \A kind \in Kinds, node \in 0..(GetNumberOfNodes(slv_model.manager) - 1) :
            \E d \in {demand(kind, slv_model.df, slv_model.manager, slv_model.depot_indices,
                             NodeToIndex(slv_model.manager, node))} :
                /\ node < Len(slv_df) => d = ServiceDemand(kind, slv_df[node + 1])
                /\ (Len(slv_df) <= node /\ node < 2 * Len(slv_df)) => d = 0
                /\ (node >= Len(slv_df) /\ \E k \in DOMAIN slv_model.depot_indices :
                                              slv_model.depot_indices[k] = node) => d = 0

\* the routes without the start node their path begins with
PathsWithoutDepot == [v \in DOMAIN ps_routes |-> [ps_routes[v] EXCEPT !.path = Tail(@)]]

\* C19: a depot node is never treated as a service.  The start node of a path
\* (ordem 0) gets no stop row, the CEU total of a route is the total of the
\* nodes after its start node, and the rota_id column returned is the one the
\* paths without their start nodes give.
C19_DepotIsNoService ==
    /\ \A i \in DOMAIN ps_rota_parada : ps_rota_parada[i].ordem # 0
    /\ \A k \in DOMAIN ps_rota :
          ps_rota[k].total_ceu =
              CeuTotal(ps_df, ps_df_idx_map, Tail(ps_routes[RoutesWithHeader[k]].path))
    /\ ps_pc = "done" =>
          ps_ret.rota_id =
              RotaIdColumn(ps_df, NodeToService(ps_df, ps_df_idx_map, ps_rota_ids,
                                                PathsWithoutDepot))

\* what persist_routes lines 74-82 make of a node: the row and the role of
\* the stop, or no stop
StopOf(df, df_idx_map, node) ==
    IF ValidIdx(df, MapGet(df_idx_map, node))
    THEN [row |-> MapGet(df_idx_map, node), node_type |-> NodeType(node, Len(df))]
    ELSE [row |-> -1, node_type |-> "none"]

\* C20: for every service i of a batch of n services the pickup node i and
\* the delivery node i + n are no depot nodes, and persist_routes decodes the
\* former as the PICKUP of row i and the latter as the DELIVERY of row i.
C20_NodeRoundTrip ==
    ps_pc # "idle" =>
        \A i \in 0..(Len(ps_df) - 1) :
            /\ i \notin PsDepotNodes
            /\ (i + Len(ps_df)) \notin PsDepotNodes
            /\ StopOf(ps_df, ps_df_idx_map, i) = [row |-> i, node_type |-> "PICKUP"]
            /\ StopOf(ps_df, ps_df_idx_map, i + Len(ps_df)) = [row |-> i, node_type |-> "DELIVERY"]

\* the selection the plain rule gives: the blocks in descending order of
\* demand, each tried on all the trailers in the order of the list
PlainFirstFit(df, trailers) ==
    LET blocks == ServiceBlocks(df)
    IN  RunWork(NewSelection(trailers),
                [k \in DOMAIN blocks |->
                    [block |-> blocks[k], order |-> [t \in DOMAIN trailers |-> t]]])

\* C21: the selection is the greedy first fit.  At its return the blocks are on
\* the trailers the plain rule puts them on, and a block is left out only if
\* no trailer has room for it.
C21_GreedyFirstFit ==
    (sel_pc = "done" /\ sel_df # <<>> /\ sel_trailers # <<>>) =>
        /\ sel_st.alocacoes_por_trailer = PlainFirstFit(sel_df, sel_trailers).alocacoes_por_trailer
        /\ \A k \in DOMAIN ServiceBlocks(sel_df) :
              ServiceBlocks(sel_df)[k].key \notin UsedKeys(sel_st) =>
                  \A t \in DOMAIN sel_st.trailer_caps :
                      sel_st.trailer_caps[t].restante < ServiceBlocks(sel_df)[k].ceu

\* C22: whatever calls of interno_penalties were made on the model, no node
\* is in two of its disjunctions.
C22_DisjunctionExclusive ==
    \A i, j \in DOMAIN dj_disj : i # j => dj_disj[i] \cap dj_disj[j] = {}

\* the nodes a callback has a service for: pickups and deliveries for the
\* callbacks of create_demand_callbacks, the rows of df for ceu_dimension
DmServiceRange(fn) == IF fn = "build_demand" THEN 2 * Len(dm_df) ELSE Len(dm_df)

\* C23: a demand callback never raises, and gives 0 for a number that is no
\* index of the model and for the index of a node outside the service range
\* of the batch.
C23_DemandZeroOutOfRange ==
    dm_pc = "called" =>
        /\ ~dm_ret.raised
        /\ ~IsIndex(dm_manager, dm_call.index) => dm_ret.val = 0
        /\ (/\ IsIndex(dm_manager, dm_call.index)
            /\ IndexToNode(dm_manager, dm_call.index) >= DmServiceRange(dm_call.fn))
               => dm_ret.val = 0

\* the km of vehicle v's route, start to end, read off the distance matrix
RECURSIVE KmAlong(_, _)
KmAlong(dist_matrix, nodes) ==
    IF Len(nodes) < 2 THEN 0
    ELSE dist_matrix[nodes[1] + 1][nodes[2] + 1] + KmAlong(dist_matrix, Tail(nodes))

RouteKm(v) ==
    LET q == RouteIndices(slv_model.manager, slv_routes, v)
    IN  KmAlong(slv_model.dist_matrix, [k \in DOMAIN q |-> IndexToNode(slv_model.manager, q[k])])

FitsCap(df, keep, cap) == SumFn([k \in keep |-> df[k].ceu_int], keep) <= cap

C25_LargestFittingSubset ==
    ss_pc = "returned" =>
        /\ SeqSum([k \in DOMAIN ss_ret.df_ok |-> ss_ret.df_ok[k].ceu_int]) <= ss_cap
        /\ \A keep \in SUBSET DOMAIN ss_df :
              FitsCap(ss_df, keep, ss_cap) => Cardinality(keep) <= Len(ss_ret.df_ok)

\* C26: the location clustering uses for a side (load or unload) of a
\* service is the base of that side's own city when that city is a base
\* city, and the side's own city otherwise.
SideCity(row, tipo) == IF tipo = "load" THEN row.load_city ELSE row.unload_city

C26_SideUsesOwnBase ==
    bs_pc = "clustered" =>
        LET city == SideCity(bs_row, bs_call.tipo)
        IN  bs_call.real = IF city # EmptyCity /\ norm(city) \in DOMAIN bs_base_map
                           THEN bs_base_map[norm(city)]
                           ELSE city

\* C27: map_bases_to_indices returns one start and one end per trailer of
\* the input list, in the list's order, both the index of the trailer's
\* normalized base city, so vehicle k is trailers[k]; it raises when a base
\* is not in the city index map.
InCityIndexMap(locations, city) == \E j \in DOMAIN locations : locations[j] = city

C27_VehicleKIsTrailerK ==
    LET locations == get_unique_cities(mb_df, mb_trailers)
    IN  /\ mb_pc = "returned" =>
              /\ Len(mb_ret.starts) = Len(mb_trailers)
              /\ Len(mb_ret.ends) = Len(mb_trailers)
              /\ \A k \in DOMAIN mb_trailers :
                    /\ InCityIndexMap(locations, norm(mb_trailers[k].base_city))
                    /\ mb_ret.starts[k] = CityIndex(locations, norm(mb_trailers[k].base_city))
                    /\ mb_ret.ends[k] = mb_ret.starts[k]
        /\ mb_pc \in {"returned", "raised"} =>
              ((\E k \in DOMAIN mb_trailers :
                    ~InCityIndexMap(locations, norm(mb_trailers[k].base_city)))
                  => mb_pc = "raised")

\* C28: the subset selection partitions its input, also for an empty trailer
\* list: the used and the remaining services are disjoint and together are
\* the input services, and a used service was assigned to exactly one
\* trailer, which is among trailers_usados.
IdsOf(frame) == {frame[k].id : k \in DOMAIN frame}

AssignedTo(ret, id) ==
    {t \in DOMAIN ret.alocacoes_por_trailer :
        \E j \in DOMAIN ret.alocacoes_por_trailer[t] : ret.alocacoes_por_trailer[t][j] = id}

C28_SelectionPartitions ==
    sel_pc = "done" =>
        /\ IdsOf(sel_ret.df_usado) \cap IdsOf(sel_ret.df_restante) = {}
        /\ IdsOf(sel_ret.df_usado) \cup IdsOf(sel_ret.df_restante) = IdsOf(sel_df)
        /\ Len(sel_ret.df_usado) + Len(sel_ret.df_restante) = Len(sel_df)
        /\ \A id \in IdsOf(sel_ret.df_usado) :
              /\ Cardinality(AssignedTo(sel_ret, id)) = 1
              /\ \A t \in AssignedTo(sel_ret, id) :
                    \E j \in DOMAIN sel_ret.trailers_usados : sel_ret.trailers_usados[j] = t

\* C29: a service is added to the allocated set of the run only if a route
\* header and at least one stop row for it were persisted in the round.
HasPersistedStop(service_id) ==
    \E i \in DOMAIN ps_rota_parada :
        /\ ps_rota_parada[i].service_id = service_id
        /\ \E k \in DOMAIN ps_rota : ps_rota[k].id = ps_rota_parada[i].rota_id

C30_TagIsOwnRouteHeader ==
    ps_pc = "done" =>
        \A k \in DOMAIN ps_df :
            ps_ret.rota_id[k] # 0 =>
                \E j \in DOMAIN RoutesWithHeader :
                    /\ ps_rota_ids[j] = ps_ret.rota_id[k]
                    /\ \E o \in DOMAIN ps_routes[RoutesWithHeader[j]].path :
                          ps_routes[RoutesWithHeader[j]].path[o] = k - 1

====
